---- MODULE Spec2Model ----
(***************************************************************************)
(* The syscall boundary of the sandbox backend                             *)
(* (core-backend/sandbox/src/funcs.rs): FuncsHandler's handlers acting on   *)
(* a Runtime (guest memory, the trap context `err`, the extension `ext`).   *)
(* One behaviour is one guest call: the guest invokes syscalls one after    *)
(* the other until one of them returns the trap signal.                     *)
(* `pushed` is the guest's own record of that call: for every handle it was *)
(* given, the bytes it has pushed to it with status 0, in push order, and   *)
(* how many times it has committed it with status 0.                       *)
(* `context` is the batch pool's Context                                    *)
(* (utils/node-loader/src/batch_pool/context.rs), and `applied` the record  *)
(* of what it started with and of the updates applied to it.                *)
(***************************************************************************)
EXTENDS Integers, Sequences, FiniteSets, TLC

VARIABLES ctx, last, calls, termination, pushed, context, applied

vars == <<ctx, last, calls, termination, pushed, context, applied>>

(* ------------------------------ bounds --------------------------------- *)

\* Bytes of guest linear memory.
MemSize == 40
\* The configured maximum payload length (Payload's limit), scaled down.
MaxPayload == 3
\* Longest incoming message payload of the current call.
MaxMsgLen == 5
\* Syscalls per guest call.
MaxCalls == 2
\* Outgoing-message handles the extension lets a call open.
MaxHandles == 2
\* Pages of guest memory the memory manager grants at most.
MaxPages == 2
\* RuntimeBuffer's maximum length.
MaxBuffer == 4
\* Syscalls per guest call when the guest builds a message in parts.
MaxChain == 4
\* Program ids and code ids the node loader's reports carry.
MaxPrograms == 3
MaxCodes == 1
\* Updates applied to a Context.
MaxUpdates == 2

(* --------------------------- program constants ------------------------- *)

\* ProgramId, MessageId, CodeId: 32-byte arrays.
IdLen == 32
\* size_of::<u128>() and size_of::<u32>() in bytes.
U128Len == 128 \div 8
U32Len == 32 \div 8

\* Width of an i32 stack value, scaled down from 32 bits.
WordBits == 8

I32Max == 2^(WordBits - 1) - 1

(* ------------------------------ values --------------------------------- *)

\* sp_sandbox::Value
I32(n) == [tag |-> "I32", val |-> n]
I64(n) == [tag |-> "I64", val |-> n]

\* SyscallOutput = Result<ReturnValue, HostError>
HostError == [sig |-> "Trap", val |-> 0]
Unit == [sig |-> "Unit", val |-> 0]
RetI32(n) == [sig |-> "I32", val |-> n]
RetI64(n) == [sig |-> "I64", val |-> n]

\* Result<T, E>
Ok(v) == [ok |-> TRUE, v |-> v]
Err(e) == [ok |-> FALSE, e |-> e]

\* FuncError<E>: the variant, the Core error / termination reason it wraps,
\* and its numeric fields.
FE(tag, core, data) == [tag |-> tag, core |-> core, data |-> data]
Core(e) == FE("Core", e, <<>>)
MemoryErr == FE("Memory", "OutOfBounds", <<>>)
PayloadSize == FE("PayloadSize", "", <<>>)
SyscallErrorExpected == FE("SyscallErrorExpected", "", <<>>)
Terminated(reason, data) == FE("Terminated", reason, data)
ReadWrongRange(from, to, size) == FE("ReadWrongRange", "", <<from, to, size>>)
ReadLenOverflow(at, len) == FE("ReadLenOverflow", "", <<at, len>>)
RuntimeCtx(e) == FE("RuntimeCtx", e, <<>>)
RuntimeBufferSize == FE("RuntimeBufferSize", "", <<>>)
NonReplyExitCode == FE("NonReplyExitCode", "", <<>>)
NoReplyContext == FE("NoReplyContext", "", <<>>)
DebugString(bytes) == FE("DebugString", "", bytes)
\* The value Runtime.err holds when a guest call starts.
ErrUnset == FE("Unset", "", <<>>)

Fits(v, T) ==
    CASE T = "u32" -> v >= 0
      [] T = "usize" -> v >= 0
      [] T = "u64" -> v >= 0
      [] OTHER -> TRUE
\* As pop_i32, the tag of the value not being looked at.
pop_i32_any_width(args, i, T) ==
    IF i <= Len(args) /\ Fits(args[i].val, T)
    THEN Ok(args[i].val)
    ELSE Err(HostError)

pop_i32(args, i, T) ==
    IF i <= Len(args) /\ args[i].tag = "I32" /\ Fits(args[i].val, T)
    THEN Ok(args[i].val)
    ELSE Err(HostError)

pop_i64(args, i, T) ==
    IF i <= Len(args) /\ args[i].tag = "I64" /\ Fits(args[i].val, T)
    THEN Ok(args[i].val)
    ELSE Err(HostError)


\* return_i32 / return_i64 on an unsigned or i32 value: val.try_into()
return_i32(val) ==
    IF val >= -(I32Max + 1) /\ val <= I32Max THEN Ok(RetI32(val)) ELSE Err(HostError)

return_i64(val) ==
    IF val >= -(2^(2 * WordBits - 1)) /\ val < 2^(2 * WordBits - 1)
    THEN Ok(RetI64(val))
    ELSE Err(HostError)

\* `code as i32` on a u32.
AsI32(n) ==
    IF n % 2^WordBits < 2^(WordBits - 1)
    THEN n % 2^WordBits
    ELSE (n % 2^WordBits) - 2^WordBits

\* usize::checked_add, usize being `bits` wide.
checked_add(a, b, bits) == IF a + b < 2^bits THEN Ok(a + b) ELSE Err(<<>>)

\* The widths of usize the build targets give: as wide as an i32 stack value
\* (wasm32) or twice as wide (native).
UsizeWidths == {WordBits, 2 * WordBits}

(* --------------------------- guest memory ------------------------------ *)

Slice(m, ptr, len) == [i \in 1..len |-> m[ptr + i - 1]]

InBounds(ptr, len) == ptr + len <= MemSize

read_memory(c, ptr, len) ==
    IF InBounds(ptr, len) THEN Ok(Slice(c.mem, ptr, len)) ELSE Err(MemoryErr)

read_memory_as(c, ptr, size) == read_memory(c, ptr, size)

\* Little-endian decoding of an unsigned integer.
RECURSIVE LeValue(_)
LeValue(bytes) ==
    IF bytes = <<>> THEN 0 ELSE bytes[1] + 256 * LeValue(Tail(bytes))

\* u32::to_le_bytes
RECURSIVE LeBytes(_, _)
LeBytes(n, k) == IF k = 0 THEN <<>> ELSE <<n % 256>> \o LeBytes(n \div 256, k - 1)

write_output(c, ptr, bytes) ==
    IF InBounds(ptr, Len(bytes))
    THEN Ok([c EXCEPT !.mem = [i \in 0..(MemSize - 1) |->
                IF i >= ptr /\ i < ptr + Len(bytes) THEN bytes[i - ptr + 1] ELSE @[i]]])
    ELSE Err(MemoryErr)

\* Payload::try_from(Vec<u8>)
try_into_payload(bytes) ==
    IF Len(bytes) <= MaxPayload THEN Ok(bytes) ELSE Err(PayloadSize)

(* ------------------- the extension (trait Ext) ------------------------- *)

\* Errors that convert into an ExtError (a domain failure the guest can
\* retrieve), and errors that do not.
DomainErrors == {"NotEnoughValue", "MaxMessageSizeExceed", "OutOfBounds", "DuplicateReply"}
FatalErrors == {"GasLimitExceeded"}
\* What an extension operation may answer whatever its state.
ExtOutcomes == {"Ok", "NotEnoughValue"} \cup FatalErrors

\* ExtError::encode
encode(e) ==
    CASE e = "NotEnoughValue" -> <<1, 7>>
      [] e = "MaxMessageSizeExceed" -> <<1, 2, 9>>
      [] e = "OutOfBounds" -> <<1, 3>>
      [] e = "DuplicateReply" -> <<1, 5, 5, 5>>
      [] OTHER -> <<0>>

encoded_size(e) == Len(encode(e))

MsgId(n) == [i \in 1..IdLen |-> 100 + n]
ProgId(n) == [i \in 1..IdLen |-> 120 + n]

ExtOk(ext, op, v) ==
    [res |-> Ok(v), ext |-> [ext EXCEPT !.invoked = Append(@, [op |-> op, res |-> "Ok"])]]

ExtFail(ext, op, e) ==
    [res |-> Err(e),
     ext |-> [ext EXCEPT !.invoked = Append(@, [op |-> op, res |-> e]),
                         !.lastError = IF e \in DomainErrors THEN e ELSE @]]

Dispatch(ext, op, kind, id, packet, delay) ==
    [res |-> Ok(id),
     ext |-> [ext EXCEPT !.invoked = Append(@, [op |-> op, res |-> "Ok"]),
                         !.outgoing = Append(@, [kind |-> kind, id |-> id,
                                                 packet |-> packet, delay |-> delay])]]

NextMsgId(ext) == MsgId(Len(ext.outgoing) + 1)

\* HandlePacket / ReplyPacket / InitPacket; gas is <<>> (None) or <<limit>>.
HandlePacket(dest, payload, gas, value) ==
    [dest |-> dest, salt |-> <<>>, payload |-> payload, gas |-> gas, value |-> value]
ReplyPacket(payload, gas, value) ==
    [dest |-> <<>>, salt |-> <<>>, payload |-> payload, gas |-> gas, value |-> value]
InitPacket(code, salt, payload, gas, value) ==
    [dest |-> code, salt |-> salt, payload |-> payload, gas |-> gas, value |-> value]

ext_send(ext, packet, delay, oc) ==
    IF oc = "Ok"
    THEN Dispatch(ext, "send", "handle", NextMsgId(ext), packet, delay)
    ELSE ExtFail(ext, "send", oc)

ext_send_init(ext, oc) ==
    IF oc # "Ok" THEN ExtFail(ext, "send_init", oc)
    ELSE IF Len(ext.handles) >= MaxHandles THEN ExtFail(ext, "send_init", "OutOfBounds")
    ELSE [res |-> Ok(Len(ext.handles)),
          ext |-> [ext EXCEPT !.invoked = Append(@, [op |-> "send_init", res |-> "Ok"]),
                              !.handles = Append(@, [payload |-> <<>>, open |-> TRUE])]]

HandleOpen(ext, h) == h < Len(ext.handles) /\ ext.handles[h + 1].open

ext_send_push(ext, h, bytes, oc) ==
    IF oc # "Ok" THEN ExtFail(ext, "send_push", oc)
    ELSE IF ~HandleOpen(ext, h) THEN ExtFail(ext, "send_push", "OutOfBounds")
    ELSE IF Len(ext.handles[h + 1].payload) + Len(bytes) > MaxPayload
    THEN ExtFail(ext, "send_push", "MaxMessageSizeExceed")
    ELSE [res |-> Ok(<<>>),
          ext |-> [ext EXCEPT !.invoked = Append(@, [op |-> "send_push", res |-> "Ok"]),
                              !.handles[h + 1].payload = @ \o bytes]]

ext_send_commit(ext, h, packet, delay, oc) ==
    IF oc # "Ok" THEN ExtFail(ext, "send_commit", oc)
    ELSE IF ~HandleOpen(ext, h) THEN ExtFail(ext, "send_commit", "OutOfBounds")
    ELSE LET d == Dispatch(ext, "send_commit", "handle", NextMsgId(ext),
                           [packet EXCEPT !.payload = ext.handles[h + 1].payload], delay)
         IN [d EXCEPT !.ext.handles[h + 1].open = FALSE]

ext_reply_push(ext, bytes, oc) ==
    IF oc # "Ok" THEN ExtFail(ext, "reply_push", oc)
    ELSE IF ext.replied THEN ExtFail(ext, "reply_push", "DuplicateReply")
    ELSE IF Len(ext.replyBuf) + Len(bytes) > MaxPayload
    THEN ExtFail(ext, "reply_push", "MaxMessageSizeExceed")
    ELSE [res |-> Ok(<<>>),
          ext |-> [ext EXCEPT !.invoked = Append(@, [op |-> "reply_push", res |-> "Ok"]),
                              !.replyBuf = @ \o bytes]]

ext_reply_commit(ext, packet, delay, oc) ==
    IF oc # "Ok" THEN ExtFail(ext, "reply_commit", oc)
    ELSE IF ext.replied THEN ExtFail(ext, "reply_commit", "DuplicateReply")
    ELSE LET d == Dispatch(ext, "reply_commit", "reply", NextMsgId(ext),
                           [packet EXCEPT !.payload = ext.replyBuf], delay)
         IN [d EXCEPT !.ext.replied = TRUE]

ext_reply(ext, packet, delay, oc) ==
    IF oc # "Ok" THEN ExtFail(ext, "reply", oc)
    ELSE IF ext.replied THEN ExtFail(ext, "reply", "DuplicateReply")
    ELSE IF Len(ext.replyBuf) + Len(packet.payload) > MaxPayload
    THEN ExtFail(ext, "reply", "MaxMessageSizeExceed")
    ELSE LET d == Dispatch(ext, "reply", "reply", NextMsgId(ext),
                           [packet EXCEPT !.payload = ext.replyBuf \o @], delay)
         IN [d EXCEPT !.ext.replied = TRUE]

ext_create_program(ext, packet, delay, oc) ==
    IF oc = "Ok"
    THEN Dispatch(ext, "create_program", "init", ProgId(Len(ext.outgoing) + 1), packet, delay)
    ELSE ExtFail(ext, "create_program", oc)

ext_read(ext, oc) ==
    IF oc \in FatalErrors THEN ExtFail(ext, "read", oc) ELSE ExtOk(ext, "read", ext.payload)

\* Option<ExtError>: <<>> is None.
ext_last_error(ext) == IF ext.lastError = "" THEN <<>> ELSE <<ext.lastError>>

ext_hook(ext, op, oc) ==
    IF oc = "Ok" THEN ExtOk(ext, op, <<>>) ELSE ExtFail(ext, op, oc)

\* What an accessor may answer, and what a gas charge may answer.
AccessorOutcomes == {"Ok"} \cup FatalErrors

\* The accessor op of the extension (size, exit_code, reply_to, origin, ...),
\* whose answer is v when it succeeds. An Option is <<>> for None and <<x>>
\* for Some(x); a u128 is its 16 encoded bytes.
ext_get(ext, op, v, oc) ==
    IF oc = "Ok" THEN ExtOk(ext, op, v) ELSE ExtFail(ext, op, oc)

\* AsTerminationReason::as_termination_reason of an extension error.
as_termination_reason(e) ==
    IF e = "GasAllowanceExceeded" THEN <<"GasAllowanceExceeded">> ELSE <<>>

\* Ext::gas: charges val.
ext_gas(ext, val, oc) ==
    IF oc # "Ok" THEN ExtFail(ext, "gas", oc)
    ELSE IF val > ext.gasAvailable THEN ExtFail(ext, "gas", "GasLimitExceeded")
    ELSE ExtOk([ext EXCEPT !.gasAvailable = @ - val], "gas", <<>>)

\* Ext::free
ext_free(ext, page, oc) ==
    IF oc # "Ok" THEN ExtFail(ext, "free", oc)
    ELSE IF page \notin ext.allocated THEN ExtFail(ext, "free", "InvalidFree")
    ELSE ExtOk([ext EXCEPT !.allocated = @ \ {page}], "free", <<>>)

\* Ext::debug
ext_debug(ext, str, oc) ==
    IF oc # "Ok" THEN ExtFail(ext, "debug", oc)
    ELSE ExtOk([ext EXCEPT !.debugged = Append(@, str)], "debug", <<>>)

\* Ext::wake
ext_wake(ext, waker_id, delay, oc) ==
    IF oc # "Ok" THEN ExtFail(ext, "wake", oc)
    ELSE ExtOk([ext EXCEPT !.woken = Append(@, [id |-> waker_id, delay |-> delay])],
               "wake", <<>>)

\* Runtime::alloc: the pages after the highest one in use, within the cap.
runtime_alloc(c, pages) ==
    LET used == c.ext.allocated
        top == IF used = {} THEN -1 ELSE CHOOSE p \in used : \A q \in used : q <= p
    IN  IF top + pages < MaxPages
        THEN Ok([page |-> top + 1,
                 ctx |-> [c EXCEPT !.ext.allocated = @ \cup ((top + 1)..(top + pages)),
                                   !.ext.invoked = Append(@, [op |-> "alloc", res |-> "Ok"])]])
        ELSE Err(RuntimeCtx("OutOfMemory"))

\* RuntimeBuffer::try_new_default
try_new_default(len) == IF len <= MaxBuffer THEN Ok(len) ELSE Err(RuntimeBufferSize)

\* Runtime::read_memory_into_buf, the buffer being len bytes long.
read_memory_into_buf(c, ptr, len) == read_memory(c, ptr, len)

\* String::from_utf8: whether the bytes are well-formed UTF-8 (a continuation
\* byte is one of 128..191).
RECURSIVE valid_utf8(_)
valid_utf8(b) ==
    IF b = <<>> THEN TRUE
    ELSE IF b[1] < 128 THEN valid_utf8(Tail(b))
    ELSE IF b[1] >= 194 /\ b[1] <= 223
         THEN Len(b) >= 2 /\ b[2] \in 128..191 /\ valid_utf8(SubSeq(b, 3, Len(b)))
    ELSE IF b[1] >= 224 /\ b[1] <= 239
         THEN /\ Len(b) >= 3 /\ b[2] \in 128..191 /\ b[3] \in 128..191
              /\ (b[1] = 224 => b[2] >= 160)
              /\ (b[1] = 237 => b[2] <= 159)
              /\ valid_utf8(SubSeq(b, 4, Len(b)))
    ELSE IF b[1] >= 240 /\ b[1] <= 244
         THEN /\ Len(b) >= 4 /\ b[2] \in 128..191 /\ b[3] \in 128..191 /\ b[4] \in 128..191
              /\ (b[1] = 240 => b[2] >= 144)
              /\ (b[1] = 244 => b[2] <= 143)
              /\ valid_utf8(SubSeq(b, 5, Len(b)))
    ELSE FALSE

from_utf8(bytes) == IF valid_utf8(bytes) THEN Ok(bytes) ELSE Err(DebugString(bytes))

forbidden_function == "ForbiddenFunction"

(* ---------------- error_processor: ProcessError ------------------------ *)

into_ext_error(e) == IF e \in DomainErrors THEN Ok(e) ELSE Err(e)

process_error(res) ==
    IF res.ok THEN Ok([success |-> TRUE, val |-> res.v, err |-> ""])
    ELSE IF into_ext_error(res.e).ok
         THEN Ok([success |-> FALSE, val |-> <<>>, err |-> res.e])
         ELSE Err(res.e)

\* Outcome of a handler's closure: the value or the error, and the Runtime
\* as the closure left it.
FOk(c, v) == [ok |-> TRUE, v |-> v, e |-> ErrUnset, ctx |-> c]
FErr(c, e) == [ok |-> FALSE, v |-> 0, e |-> e, ctx |-> c]

\* ExtErrorProcessor::error_len_on_success with the closure
\* |id| ctx.write_output(out_ptr, bytes)
error_len_on_success(c, p, out_ptr, bytes) ==
    IF p.success
    THEN LET w == write_output(c, out_ptr, bytes)
         IN IF w.ok THEN FOk(w.v, 0) ELSE FErr(c, w.e)
    ELSE FOk(c, encoded_size(p.err))

\* ExtErrorProcessor::error_len
error_len(c, p) == IF p.success THEN FOk(c, 0) ELSE FOk(c, encoded_size(p.err))

(* ---------------------- FuncsHandler: the handlers --------------------- *)

\* What a handler leaves behind: its SyscallOutput and the Runtime.
Output(out, c) == [out |-> out, ctx |-> c]

\* As status_output, the status being a flag and not a length.
status_output_flag(f) ==
    IF f.ok THEN Output(RetI32(IF f.v = 0 THEN 0 ELSE 1), f.ctx)
    ELSE Output(HostError, [f.ctx EXCEPT !.err = f.e])

\* As status_output, a non-zero status leaving its error in the trap context.
status_output_records(f) ==
    IF f.ok
    THEN Output(RetI32(AsI32(f.v)),
                IF f.v = 0 THEN f.ctx
                ELSE [f.ctx EXCEPT !.err = Core(f.ctx.ext.lastError)])
    ELSE Output(HostError, [f.ctx EXCEPT !.err = f.e])

\* f().map(|code| Value::I32(code as i32).into())
\*    .map_err(|err| { ctx.err = err; HostError })
status_output(f) ==
    IF f.ok THEN Output(RetI32(AsI32(f.v)), f.ctx)
    ELSE Output(HostError, [f.ctx EXCEPT !.err = f.e])

\* As unit_output, the closure's error being dropped.
unit_output_silent(f) ==
    IF f.ok THEN Output(Unit, f.ctx) ELSE Output(HostError, f.ctx)

\* f().map(|()| ReturnValue::Unit).map_err(|err| { ctx.err = err; HostError })
unit_output(f) ==
    IF f.ok THEN Output(Unit, f.ctx)
    ELSE Output(HostError, [f.ctx EXCEPT !.err = f.e])
\* As send, the output pointer being taken before the value pointer.
send_out_before_value(c, args, oc) ==
    LET program_id_ptr == pop_i32(args, 1, "u32")
        payload_ptr == pop_i32(args, 2, "u32")
        payload_len == pop_i32(args, 3, "u32")
        value_ptr == pop_i32(args, 5, "u32")
        message_id_ptr == pop_i32(args, 4, "u32")
        delay_ptr == pop_i32(args, 6, "u32")
        decoded == /\ program_id_ptr.ok /\ payload_ptr.ok /\ payload_len.ok
                   /\ value_ptr.ok /\ message_id_ptr.ok /\ delay_ptr.ok
    IN  IF ~decoded THEN Output(HostError, c)
        ELSE LET f ==
                 LET dest == read_memory_as(c, program_id_ptr.v, IdLen) IN
                 IF ~dest.ok THEN FErr(c, dest.e) ELSE
                 LET raw == read_memory(c, payload_ptr.v, payload_len.v) IN
                 IF ~raw.ok THEN FErr(c, raw.e) ELSE
                 LET payload == try_into_payload(raw.v) IN
                 IF ~payload.ok THEN FErr(c, payload.e) ELSE
                 LET value == read_memory_as(c, value_ptr.v, U128Len) IN
                 IF ~value.ok THEN FErr(c, value.e) ELSE
                 LET delay == read_memory_as(c, delay_ptr.v, U32Len) IN
                 IF ~delay.ok THEN FErr(c, delay.e) ELSE
                 LET x == ext_send(c.ext, HandlePacket(dest.v, payload.v, <<>>, value.v),
                          LeValue(delay.v), oc)
                     c1 == [c EXCEPT !.ext = x.ext]
                     p == process_error(x.res)
                 IN  IF ~p.ok THEN FErr(c1, Core(p.e))
                     ELSE error_len_on_success(c1, p.v, message_id_ptr.v, p.v.val)
             IN  status_output(f)

send(c, args, oc) ==
    LET program_id_ptr == pop_i32(args, 1, "u32")
        payload_ptr == pop_i32(args, 2, "u32")
        payload_len == pop_i32(args, 3, "u32")
        value_ptr == pop_i32(args, 4, "u32")
        message_id_ptr == pop_i32(args, 5, "u32")
        delay_ptr == pop_i32(args, 6, "u32")
        decoded == /\ program_id_ptr.ok /\ payload_ptr.ok /\ payload_len.ok
                   /\ value_ptr.ok /\ message_id_ptr.ok /\ delay_ptr.ok
    IN  IF ~decoded THEN Output(HostError, c)
        ELSE LET f ==
                 LET dest == read_memory_as(c, program_id_ptr.v, IdLen) IN
                 IF ~dest.ok THEN FErr(c, dest.e) ELSE
                 LET raw == read_memory(c, payload_ptr.v, payload_len.v) IN
                 IF ~raw.ok THEN FErr(c, raw.e) ELSE
                 LET payload == try_into_payload(raw.v) IN
                 IF ~payload.ok THEN FErr(c, payload.e) ELSE
                 LET value == read_memory_as(c, value_ptr.v, U128Len) IN
                 IF ~value.ok THEN FErr(c, value.e) ELSE
                 LET delay == read_memory_as(c, delay_ptr.v, U32Len) IN
                 IF ~delay.ok THEN FErr(c, delay.e) ELSE
                 LET x == ext_send(c.ext, HandlePacket(dest.v, payload.v, <<>>, value.v),
                          LeValue(delay.v), oc)
                     c1 == [c EXCEPT !.ext = x.ext]
                     p == process_error(x.res)
                 IN  IF ~p.ok THEN FErr(c1, Core(p.e))
                     ELSE error_len_on_success(c1, p.v, message_id_ptr.v, p.v.val)
             IN  status_output(f)

send_wgas(c, args, oc) ==
    LET program_id_ptr == pop_i32(args, 1, "u32")
        payload_ptr == pop_i32(args, 2, "u32")
        payload_len == pop_i32(args, 3, "u32")
        gas_limit == pop_i64(args, 4, "u64")
        value_ptr == pop_i32(args, 5, "u32")
        message_id_ptr == pop_i32(args, 6, "u32")
        delay_ptr == pop_i32(args, 7, "u32")
        decoded == /\ program_id_ptr.ok /\ payload_ptr.ok /\ payload_len.ok
                   /\ gas_limit.ok /\ value_ptr.ok /\ message_id_ptr.ok
                   /\ delay_ptr.ok
    IN  IF ~decoded THEN Output(HostError, c)
        ELSE LET f ==
                 LET dest == read_memory_as(c, program_id_ptr.v, IdLen) IN
                 IF ~dest.ok THEN FErr(c, dest.e) ELSE
                 LET raw == read_memory(c, payload_ptr.v, payload_len.v) IN
                 IF ~raw.ok THEN FErr(c, raw.e) ELSE
                 LET payload == try_into_payload(raw.v) IN
                 IF ~payload.ok THEN FErr(c, payload.e) ELSE
                 LET value == read_memory_as(c, value_ptr.v, U128Len) IN
                 IF ~value.ok THEN FErr(c, value.e) ELSE
                 LET delay == read_memory_as(c, delay_ptr.v, U32Len) IN
                 IF ~delay.ok THEN FErr(c, delay.e) ELSE
                 LET x == ext_send(c.ext, HandlePacket(dest.v, payload.v, <<gas_limit.v>>, value.v),
                          LeValue(delay.v), oc)
                     c1 == [c EXCEPT !.ext = x.ext]
                     p == process_error(x.res)
                 IN  IF ~p.ok THEN FErr(c1, Core(p.e))
                     ELSE error_len_on_success(c1, p.v, message_id_ptr.v, p.v.val)
             IN  status_output(f)

\* As send_commit, the arguments being taken in the order of send's (the
\* destination before the output pointer).
send_commit_dest_first(c, args, oc) ==
    LET handle_ptr == pop_i32(args, 1, "u32")
        program_id_ptr == pop_i32(args, 2, "u32")
        message_id_ptr == pop_i32(args, 3, "u32")
        value_ptr == pop_i32(args, 4, "u32")
        delay_ptr == pop_i32(args, 5, "u32")
        decoded == /\ handle_ptr.ok /\ message_id_ptr.ok /\ program_id_ptr.ok
                   /\ value_ptr.ok /\ delay_ptr.ok
    IN  IF ~decoded THEN Output(HostError, c)
        ELSE LET f ==
                 LET dest == read_memory_as(c, program_id_ptr.v, IdLen) IN
                 IF ~dest.ok THEN FErr(c, dest.e) ELSE
                 LET value == read_memory_as(c, value_ptr.v, U128Len) IN
                 IF ~value.ok THEN FErr(c, value.e) ELSE
                 LET delay == read_memory_as(c, delay_ptr.v, U32Len) IN
                 IF ~delay.ok THEN FErr(c, delay.e) ELSE
                 LET x == ext_send_commit(c.ext, handle_ptr.v,
                          HandlePacket(dest.v, <<>>, <<>>, value.v), LeValue(delay.v), oc)
                     c1 == [c EXCEPT !.ext = x.ext]
                     p == process_error(x.res)
                 IN  IF ~p.ok THEN FErr(c1, Core(p.e))
                     ELSE error_len_on_success(c1, p.v, message_id_ptr.v, p.v.val)
             IN  status_output(f)

send_commit(c, args, oc) ==
    LET handle_ptr == pop_i32(args, 1, "u32")
        message_id_ptr == pop_i32(args, 2, "u32")
        program_id_ptr == pop_i32(args, 3, "u32")
        value_ptr == pop_i32(args, 4, "u32")
        delay_ptr == pop_i32(args, 5, "u32")
        decoded == /\ handle_ptr.ok /\ message_id_ptr.ok /\ program_id_ptr.ok
                   /\ value_ptr.ok /\ delay_ptr.ok
    IN  IF ~decoded THEN Output(HostError, c)
        ELSE LET f ==
                 LET dest == read_memory_as(c, program_id_ptr.v, IdLen) IN
                 IF ~dest.ok THEN FErr(c, dest.e) ELSE
                 LET value == read_memory_as(c, value_ptr.v, U128Len) IN
                 IF ~value.ok THEN FErr(c, value.e) ELSE
                 LET delay == read_memory_as(c, delay_ptr.v, U32Len) IN
                 IF ~delay.ok THEN FErr(c, delay.e) ELSE
                 LET x == ext_send_commit(c.ext, handle_ptr.v,
                          HandlePacket(dest.v, <<>>, <<>>, value.v), LeValue(delay.v), oc)
                     c1 == [c EXCEPT !.ext = x.ext]
                     p == process_error(x.res)
                 IN  IF ~p.ok THEN FErr(c1, Core(p.e))
                     ELSE error_len_on_success(c1, p.v, message_id_ptr.v, p.v.val)
             IN  status_output(f)

send_commit_wgas(c, args, oc) ==
    LET handle_ptr == pop_i32(args, 1, "u32")
        message_id_ptr == pop_i32(args, 2, "u32")
        program_id_ptr == pop_i32(args, 3, "u32")
        gas_limit == pop_i64(args, 4, "u64")
        value_ptr == pop_i32(args, 5, "u32")
        delay_ptr == pop_i32(args, 6, "u32")
        decoded == /\ handle_ptr.ok /\ message_id_ptr.ok /\ program_id_ptr.ok
                   /\ gas_limit.ok /\ value_ptr.ok /\ delay_ptr.ok
    IN  IF ~decoded THEN Output(HostError, c)
        ELSE LET f ==
                 LET dest == read_memory_as(c, program_id_ptr.v, IdLen) IN
                 IF ~dest.ok THEN FErr(c, dest.e) ELSE
                 LET value == read_memory_as(c, value_ptr.v, U128Len) IN
                 IF ~value.ok THEN FErr(c, value.e) ELSE
                 LET delay == read_memory_as(c, delay_ptr.v, U32Len) IN
                 IF ~delay.ok THEN FErr(c, delay.e) ELSE
                 LET x == ext_send_commit(c.ext, handle_ptr.v,
                          HandlePacket(dest.v, <<>>, <<gas_limit.v>>, value.v), LeValue(delay.v), oc)
                     c1 == [c EXCEPT !.ext = x.ext]
                     p == process_error(x.res)
                 IN  IF ~p.ok THEN FErr(c1, Core(p.e))
                     ELSE error_len_on_success(c1, p.v, message_id_ptr.v, p.v.val)
             IN  status_output(f)

\* As send_init, the handle written being off by one.
send_init_next_handle(c, args, oc) ==
    LET handle_ptr == pop_i32(args, 1, "u32")
        decoded == handle_ptr.ok
    IN  IF ~decoded THEN Output(HostError, c)
        ELSE LET f ==
                 LET x == ext_send_init(c.ext, oc)
                     c1 == [c EXCEPT !.ext = x.ext]
                     p == process_error(x.res)
                 IN  IF ~p.ok THEN FErr(c1, Core(p.e))
                     ELSE error_len_on_success(c1, p.v, handle_ptr.v,
                                              IF p.v.success THEN LeBytes(p.v.val + 1, U32Len) ELSE <<>>)
             IN  status_output(f)

send_init(c, args, oc) ==
    LET handle_ptr == pop_i32(args, 1, "u32")
        decoded == handle_ptr.ok
    IN  IF ~decoded THEN Output(HostError, c)
        ELSE LET f ==
                 LET x == ext_send_init(c.ext, oc)
                     c1 == [c EXCEPT !.ext = x.ext]
                     p == process_error(x.res)
                 IN  IF ~p.ok THEN FErr(c1, Core(p.e))
                     ELSE error_len_on_success(c1, p.v, handle_ptr.v,
                                              IF p.v.success THEN LeBytes(p.v.val, U32Len) ELSE <<>>)
             IN  status_output(f)

\* As send_push, a domain failure being raised as a trap.
send_push_traps(c, args, oc) ==
    LET handle_ptr == pop_i32(args, 1, "u32")
        payload_ptr == pop_i32(args, 2, "u32")
        payload_len == pop_i32(args, 3, "u32")
        decoded == handle_ptr.ok /\ payload_ptr.ok /\ payload_len.ok
    IN  IF ~decoded THEN Output(HostError, c)
        ELSE LET f ==
                 LET payload == read_memory(c, payload_ptr.v, payload_len.v) IN
                 IF ~payload.ok THEN FErr(c, payload.e) ELSE
                 LET x == ext_send_push(c.ext, handle_ptr.v, payload.v, oc)
                     c1 == [c EXCEPT !.ext = x.ext]
                     p == process_error(x.res)
                 IN  IF ~p.ok THEN FErr(c1, Core(p.e))
                     ELSE IF ~p.v.success THEN FErr(c1, Core(p.v.err))
                     ELSE error_len(c1, p.v)
             IN  status_output(f)

\* As send_push, the bytes being converted into a Payload first.
send_push_sized(c, args, oc) ==
    LET handle_ptr == pop_i32(args, 1, "u32")
        payload_ptr == pop_i32(args, 2, "u32")
        payload_len == pop_i32(args, 3, "u32")
        decoded == handle_ptr.ok /\ payload_ptr.ok /\ payload_len.ok
    IN  IF ~decoded THEN Output(HostError, c)
        ELSE LET f ==
                 LET raw == read_memory(c, payload_ptr.v, payload_len.v) IN
                 IF ~raw.ok THEN FErr(c, raw.e) ELSE
                 LET payload == try_into_payload(raw.v) IN
                 IF ~payload.ok THEN FErr(c, payload.e) ELSE
                 LET x == ext_send_push(c.ext, handle_ptr.v, payload.v, oc)
                     c1 == [c EXCEPT !.ext = x.ext]
                     p == process_error(x.res)
                 IN  IF ~p.ok THEN FErr(c1, Core(p.e))
                     ELSE error_len(c1, p.v)
             IN  status_output(f)

send_push(c, args, oc) ==
    LET handle_ptr == pop_i32(args, 1, "u32")
        payload_ptr == pop_i32(args, 2, "u32")
        payload_len == pop_i32(args, 3, "u32")
        decoded == handle_ptr.ok /\ payload_ptr.ok /\ payload_len.ok
    IN  IF ~decoded THEN Output(HostError, c)
        ELSE LET f ==
                 LET payload == read_memory(c, payload_ptr.v, payload_len.v) IN
                 IF ~payload.ok THEN FErr(c, payload.e) ELSE
                 LET x == ext_send_push(c.ext, handle_ptr.v, payload.v, oc)
                     c1 == [c EXCEPT !.ext = x.ext]
                     p == process_error(x.res)
                 IN  IF ~p.ok THEN FErr(c1, Core(p.e))
                     ELSE error_len(c1, p.v)
             IN  status_output(f)

reply(c, args, oc) ==
    LET payload_ptr == pop_i32(args, 1, "u32")
        payload_len == pop_i32(args, 2, "u32")
        value_ptr == pop_i32(args, 3, "u32")
        message_id_ptr == pop_i32(args, 4, "u32")
        delay_ptr == pop_i32(args, 5, "u32")
        decoded == /\ payload_ptr.ok /\ payload_len.ok /\ value_ptr.ok
                   /\ message_id_ptr.ok /\ delay_ptr.ok
    IN  IF ~decoded THEN Output(HostError, c)
        ELSE LET f ==
                 LET raw == read_memory(c, payload_ptr.v, payload_len.v) IN
                 IF ~raw.ok THEN FErr(c, raw.e) ELSE
                 LET payload == try_into_payload(raw.v) IN
                 IF ~payload.ok THEN FErr(c, payload.e) ELSE
                 LET value == read_memory_as(c, value_ptr.v, U128Len) IN
                 IF ~value.ok THEN FErr(c, value.e) ELSE
                 LET delay == read_memory_as(c, delay_ptr.v, U32Len) IN
                 IF ~delay.ok THEN FErr(c, delay.e) ELSE
                 LET x == ext_reply(c.ext, ReplyPacket(payload.v, <<>>, value.v), LeValue(delay.v), oc)
                     c1 == [c EXCEPT !.ext = x.ext]
                     p == process_error(x.res)
                 IN  IF ~p.ok THEN FErr(c1, Core(p.e))
                     ELSE error_len_on_success(c1, p.v, message_id_ptr.v, p.v.val)
             IN  status_output(f)
\* As reply_wgas, the packet being built without the gas limit.
reply_wgas_no_limit(c, args, oc) ==
    LET payload_ptr == pop_i32(args, 1, "u32")
        payload_len == pop_i32(args, 2, "u32")
        gas_limit == pop_i64(args, 3, "u64")
        value_ptr == pop_i32(args, 4, "u32")
        message_id_ptr == pop_i32(args, 5, "u32")
        delay_ptr == pop_i32(args, 6, "u32")
        decoded == /\ payload_ptr.ok /\ payload_len.ok /\ gas_limit.ok
                   /\ value_ptr.ok /\ message_id_ptr.ok /\ delay_ptr.ok
    IN  IF ~decoded THEN Output(HostError, c)
        ELSE LET f ==
                 LET raw == read_memory(c, payload_ptr.v, payload_len.v) IN
                 IF ~raw.ok THEN FErr(c, raw.e) ELSE
                 LET payload == try_into_payload(raw.v) IN
                 IF ~payload.ok THEN FErr(c, payload.e) ELSE
                 LET value == read_memory_as(c, value_ptr.v, U128Len) IN
                 IF ~value.ok THEN FErr(c, value.e) ELSE
                 LET delay == read_memory_as(c, delay_ptr.v, U32Len) IN
                 IF ~delay.ok THEN FErr(c, delay.e) ELSE
                 LET x == ext_reply(c.ext, ReplyPacket(payload.v, <<>>, value.v),
                          LeValue(delay.v), oc)
                     c1 == [c EXCEPT !.ext = x.ext]
                     p == process_error(x.res)
                 IN  IF ~p.ok THEN FErr(c1, Core(p.e))
                     ELSE error_len_on_success(c1, p.v, message_id_ptr.v, p.v.val)
             IN  status_output(f)

reply_wgas(c, args, oc) ==
    LET payload_ptr == pop_i32(args, 1, "u32")
        payload_len == pop_i32(args, 2, "u32")
        gas_limit == pop_i64(args, 3, "u64")
        value_ptr == pop_i32(args, 4, "u32")
        message_id_ptr == pop_i32(args, 5, "u32")
        delay_ptr == pop_i32(args, 6, "u32")
        decoded == /\ payload_ptr.ok /\ payload_len.ok /\ gas_limit.ok
                   /\ value_ptr.ok /\ message_id_ptr.ok /\ delay_ptr.ok
    IN  IF ~decoded THEN Output(HostError, c)
        ELSE LET f ==
                 LET raw == read_memory(c, payload_ptr.v, payload_len.v) IN
                 IF ~raw.ok THEN FErr(c, raw.e) ELSE
                 LET payload == try_into_payload(raw.v) IN
                 IF ~payload.ok THEN FErr(c, payload.e) ELSE
                 LET value == read_memory_as(c, value_ptr.v, U128Len) IN
                 IF ~value.ok THEN FErr(c, value.e) ELSE
                 LET delay == read_memory_as(c, delay_ptr.v, U32Len) IN
                 IF ~delay.ok THEN FErr(c, delay.e) ELSE
                 LET x == ext_reply(c.ext, ReplyPacket(payload.v, <<gas_limit.v>>, value.v),
                          LeValue(delay.v), oc)
                     c1 == [c EXCEPT !.ext = x.ext]
                     p == process_error(x.res)
                 IN  IF ~p.ok THEN FErr(c1, Core(p.e))
                     ELSE error_len_on_success(c1, p.v, message_id_ptr.v, p.v.val)
             IN  status_output(f)

\* As reply_commit, the delay being read after the reply is committed.
reply_commit_late_delay(c, args, oc) ==
    LET value_ptr == pop_i32(args, 1, "u32")
        message_id_ptr == pop_i32(args, 2, "u32")
        delay_ptr == pop_i32(args, 3, "u32")
        decoded == value_ptr.ok /\ message_id_ptr.ok /\ delay_ptr.ok
    IN  IF ~decoded THEN Output(HostError, c)
        ELSE LET f ==
                 LET value == read_memory_as(c, value_ptr.v, U128Len) IN
                 IF ~value.ok THEN FErr(c, value.e) ELSE
                 LET x == ext_reply_commit(c.ext, ReplyPacket(<<>>, <<>>, value.v), 0, oc)
                     c1 == [c EXCEPT !.ext = x.ext]
                     p == process_error(x.res)
                     delay == read_memory_as(c, delay_ptr.v, U32Len)
                 IN  IF ~delay.ok THEN FErr(c1, delay.e)
                     ELSE IF ~p.ok THEN FErr(c1, Core(p.e))
                     ELSE error_len_on_success(c1, p.v, message_id_ptr.v, p.v.val)
             IN  status_output(f)

reply_commit(c, args, oc) ==
    LET value_ptr == pop_i32(args, 1, "u32")
        message_id_ptr == pop_i32(args, 2, "u32")
        delay_ptr == pop_i32(args, 3, "u32")
        decoded == value_ptr.ok /\ message_id_ptr.ok /\ delay_ptr.ok
    IN  IF ~decoded THEN Output(HostError, c)
        ELSE LET f ==
                 LET value == read_memory_as(c, value_ptr.v, U128Len) IN
                 IF ~value.ok THEN FErr(c, value.e) ELSE
                 LET delay == read_memory_as(c, delay_ptr.v, U32Len) IN
                 IF ~delay.ok THEN FErr(c, delay.e) ELSE
                 LET x == ext_reply_commit(c.ext, ReplyPacket(<<>>, <<>>, value.v), LeValue(delay.v), oc)
                     c1 == [c EXCEPT !.ext = x.ext]
                     p == process_error(x.res)
                 IN  IF ~p.ok THEN FErr(c1, Core(p.e))
                     ELSE error_len_on_success(c1, p.v, message_id_ptr.v, p.v.val)
             IN  status_output(f)

reply_commit_wgas(c, args, oc) ==
    LET gas_limit == pop_i64(args, 1, "u64")
        value_ptr == pop_i32(args, 2, "u32")
        message_id_ptr == pop_i32(args, 3, "u32")
        delay_ptr == pop_i32(args, 4, "u32")
        decoded == /\ gas_limit.ok /\ value_ptr.ok /\ message_id_ptr.ok
                   /\ delay_ptr.ok
    IN  IF ~decoded THEN Output(HostError, c)
        ELSE LET f ==
                 LET value == read_memory_as(c, value_ptr.v, U128Len) IN
                 IF ~value.ok THEN FErr(c, value.e) ELSE
                 LET delay == read_memory_as(c, delay_ptr.v, U32Len) IN
                 IF ~delay.ok THEN FErr(c, delay.e) ELSE
                 LET x == ext_reply_commit(c.ext, ReplyPacket(<<>>, <<gas_limit.v>>, value.v),
                          LeValue(delay.v), oc)
                     c1 == [c EXCEPT !.ext = x.ext]
                     p == process_error(x.res)
                 IN  IF ~p.ok THEN FErr(c1, Core(p.e))
                     ELSE error_len_on_success(c1, p.v, message_id_ptr.v, p.v.val)
             IN  status_output(f)

reply_push(c, args, oc) ==
    LET payload_ptr == pop_i32(args, 1, "u32")
        payload_len == pop_i32(args, 2, "u32")
        decoded == payload_ptr.ok /\ payload_len.ok
    IN  IF ~decoded THEN Output(HostError, c)
        ELSE LET f ==
                 LET payload == read_memory(c, payload_ptr.v, payload_len.v) IN
                 IF ~payload.ok THEN FErr(c, payload.e) ELSE
                 LET x == ext_reply_push(c.ext, payload.v, oc)
                     c1 == [c EXCEPT !.ext = x.ext]
                     p == process_error(x.res)
                 IN  IF ~p.ok THEN FErr(c1, Core(p.e))
                     ELSE error_len(c1, p.v)
             IN  status_output(f)
\* As create_program, the value being read before the payload.
create_program_value_first(c, args, oc) ==
    LET code_hash_ptr == pop_i32(args, 1, "u32")
        salt_ptr == pop_i32(args, 2, "u32")
        salt_len == pop_i32(args, 3, "u32")
        payload_ptr == pop_i32(args, 4, "u32")
        payload_len == pop_i32(args, 5, "u32")
        value_ptr == pop_i32(args, 6, "u32")
        program_id_ptr == pop_i32(args, 7, "u32")
        delay_ptr == pop_i32(args, 8, "u32")
        decoded == /\ code_hash_ptr.ok /\ salt_ptr.ok /\ salt_len.ok
                   /\ payload_ptr.ok /\ payload_len.ok /\ value_ptr.ok
                   /\ program_id_ptr.ok /\ delay_ptr.ok
    IN  IF ~decoded THEN Output(HostError, c)
        ELSE LET f ==
                 LET code_hash == read_memory_as(c, code_hash_ptr.v, IdLen) IN
                 IF ~code_hash.ok THEN FErr(c, code_hash.e) ELSE
                 LET salt == read_memory(c, salt_ptr.v, salt_len.v) IN
                 IF ~salt.ok THEN FErr(c, salt.e) ELSE
                 LET value == read_memory_as(c, value_ptr.v, U128Len) IN
                 IF ~value.ok THEN FErr(c, value.e) ELSE
                 LET raw == read_memory(c, payload_ptr.v, payload_len.v) IN
                 IF ~raw.ok THEN FErr(c, raw.e) ELSE
                 LET payload == try_into_payload(raw.v) IN
                 IF ~payload.ok THEN FErr(c, payload.e) ELSE
                 LET delay == read_memory_as(c, delay_ptr.v, U32Len) IN
                 IF ~delay.ok THEN FErr(c, delay.e) ELSE
                 LET x == ext_create_program(c.ext,
                          InitPacket(code_hash.v, salt.v, payload.v, <<>>, value.v), LeValue(delay.v), oc)
                     c1 == [c EXCEPT !.ext = x.ext]
                     p == process_error(x.res)
                 IN  IF ~p.ok THEN FErr(c1, Core(p.e))
                     ELSE error_len_on_success(c1, p.v, program_id_ptr.v, p.v.val)
             IN  status_output(f)

create_program(c, args, oc) ==
    LET code_hash_ptr == pop_i32(args, 1, "u32")
        salt_ptr == pop_i32(args, 2, "u32")
        salt_len == pop_i32(args, 3, "u32")
        payload_ptr == pop_i32(args, 4, "u32")
        payload_len == pop_i32(args, 5, "u32")
        value_ptr == pop_i32(args, 6, "u32")
        program_id_ptr == pop_i32(args, 7, "u32")
        delay_ptr == pop_i32(args, 8, "u32")
        decoded == /\ code_hash_ptr.ok /\ salt_ptr.ok /\ salt_len.ok
                   /\ payload_ptr.ok /\ payload_len.ok /\ value_ptr.ok
                   /\ program_id_ptr.ok /\ delay_ptr.ok
    IN  IF ~decoded THEN Output(HostError, c)
        ELSE LET f ==
                 LET code_hash == read_memory_as(c, code_hash_ptr.v, IdLen) IN
                 IF ~code_hash.ok THEN FErr(c, code_hash.e) ELSE
                 LET salt == read_memory(c, salt_ptr.v, salt_len.v) IN
                 IF ~salt.ok THEN FErr(c, salt.e) ELSE
                 LET raw == read_memory(c, payload_ptr.v, payload_len.v) IN
                 IF ~raw.ok THEN FErr(c, raw.e) ELSE
                 LET payload == try_into_payload(raw.v) IN
                 IF ~payload.ok THEN FErr(c, payload.e) ELSE
                 LET value == read_memory_as(c, value_ptr.v, U128Len) IN
                 IF ~value.ok THEN FErr(c, value.e) ELSE
                 LET delay == read_memory_as(c, delay_ptr.v, U32Len) IN
                 IF ~delay.ok THEN FErr(c, delay.e) ELSE
                 LET x == ext_create_program(c.ext,
                          InitPacket(code_hash.v, salt.v, payload.v, <<>>, value.v), LeValue(delay.v), oc)
                     c1 == [c EXCEPT !.ext = x.ext]
                     p == process_error(x.res)
                 IN  IF ~p.ok THEN FErr(c1, Core(p.e))
                     ELSE error_len_on_success(c1, p.v, program_id_ptr.v, p.v.val)
             IN  status_output(f)

create_program_wgas(c, args, oc) ==
    LET code_hash_ptr == pop_i32(args, 1, "u32")
        salt_ptr == pop_i32(args, 2, "u32")
        salt_len == pop_i32(args, 3, "u32")
        payload_ptr == pop_i32(args, 4, "u32")
        payload_len == pop_i32(args, 5, "u32")
        gas_limit == pop_i64(args, 6, "u64")
        value_ptr == pop_i32(args, 7, "u32")
        program_id_ptr == pop_i32(args, 8, "u32")
        delay_ptr == pop_i32(args, 9, "u32")
        decoded == /\ code_hash_ptr.ok /\ salt_ptr.ok /\ salt_len.ok
                   /\ payload_ptr.ok /\ payload_len.ok /\ gas_limit.ok
                   /\ value_ptr.ok /\ program_id_ptr.ok /\ delay_ptr.ok
    IN  IF ~decoded THEN Output(HostError, c)
        ELSE LET f ==
                 LET code_hash == read_memory_as(c, code_hash_ptr.v, IdLen) IN
                 IF ~code_hash.ok THEN FErr(c, code_hash.e) ELSE
                 LET salt == read_memory(c, salt_ptr.v, salt_len.v) IN
                 IF ~salt.ok THEN FErr(c, salt.e) ELSE
                 LET raw == read_memory(c, payload_ptr.v, payload_len.v) IN
                 IF ~raw.ok THEN FErr(c, raw.e) ELSE
                 LET payload == try_into_payload(raw.v) IN
                 IF ~payload.ok THEN FErr(c, payload.e) ELSE
                 LET value == read_memory_as(c, value_ptr.v, U128Len) IN
                 IF ~value.ok THEN FErr(c, value.e) ELSE
                 LET delay == read_memory_as(c, delay_ptr.v, U32Len) IN
                 IF ~delay.ok THEN FErr(c, delay.e) ELSE
                 LET x == ext_create_program(c.ext,
                          InitPacket(code_hash.v, salt.v, payload.v, <<gas_limit.v>>, value.v),
                          LeValue(delay.v), oc)
                     c1 == [c EXCEPT !.ext = x.ext]
                     p == process_error(x.res)
                 IN  IF ~p.ok THEN FErr(c1, Core(p.e))
                     ELSE error_len_on_success(c1, p.v, program_id_ptr.v, p.v.val)
             IN  status_output(f)

\* Runtime::write_validated_output: the closure's slice is written at
\* out_ptr; r is the closure's outcome.
write_validated_output(out_ptr, r) ==
    IF ~r.ok THEN r
    ELSE LET w == write_output(r.ctx, out_ptr, r.v)
         IN IF w.ok THEN FOk(w.v, <<>>) ELSE FErr(r.ctx, w.e)

\* As read_range, a range that ends at the payload's end being refused.
read_range_exclusive(c, msg, at, len, bits) ==
    LET last_idx == checked_add(at, len, bits)
    IN  IF ~last_idx.ok THEN FErr(c, ReadLenOverflow(at, len)) ELSE
        IF last_idx.v >= Len(msg)
        THEN FErr(c, ReadWrongRange(at, last_idx.v, Len(msg)))
        ELSE FOk(c, SubSeq(msg, at + 1, last_idx.v))

\* As read_range, the error carrying the length where the range's end belongs.
read_range_len(c, msg, at, len, bits) ==
    LET last_idx == checked_add(at, len, bits)
    IN  IF ~last_idx.ok THEN FErr(c, ReadLenOverflow(at, len)) ELSE
        IF last_idx.v > Len(msg)
        THEN FErr(c, ReadWrongRange(at, len, Len(msg)))
        ELSE FOk(c, SubSeq(msg, at + 1, last_idx.v))

\* The body of read's closure once the message is at hand.
read_range(c, msg, at, len, bits) ==
    LET last_idx == checked_add(at, len, bits)
    IN  IF ~last_idx.ok THEN FErr(c, ReadLenOverflow(at, len)) ELSE
        IF last_idx.v > Len(msg)
        THEN FErr(c, ReadWrongRange(at, last_idx.v, Len(msg)))
        ELSE FOk(c, SubSeq(msg, at + 1, last_idx.v))

read(c, args, oc, bits) ==
    LET at == pop_i32(args, 1, "usize")
        len == pop_i32(args, 2, "usize")
        dest == pop_i32(args, 3, "u32")
        decoded == at.ok /\ len.ok /\ dest.ok
    IN  IF ~decoded THEN Output(HostError, c)
        ELSE LET closure ==
                 LET x == ext_read(c.ext, oc)
                     c1 == [c EXCEPT !.ext = x.ext]
                 IN  IF ~x.res.ok THEN FErr(c1, Core(x.res.e))
                     ELSE read_range(c1, x.res.v, at.v, len.v, bits)
             IN  unit_output(write_validated_output(dest.v, closure))

\* As exit, the hook's error being dropped.
exit_discards_error(c, args, oc) ==
    LET value_dest_ptr == pop_i32(args, 1, "u32")
    IN  IF ~value_dest_ptr.ok THEN Output(HostError, c)
        ELSE LET value_dest == read_memory_as(c, value_dest_ptr.v, IdLen)
             IN  IF ~value_dest.ok THEN Output(HostError, [c EXCEPT !.err = value_dest.e])
                 ELSE LET x == ext_hook(c.ext, "exit", oc)
                      IN  Output(HostError,
                                 [c EXCEPT !.ext = x.ext,
                                           !.err = Terminated("Exit", value_dest.v)])

exit(c, args, oc) ==
    LET value_dest_ptr == pop_i32(args, 1, "u32")
    IN  IF ~value_dest_ptr.ok THEN Output(HostError, c)
        ELSE LET res ==
                 LET value_dest == read_memory_as(c, value_dest_ptr.v, IdLen) IN
                 IF ~value_dest.ok THEN FErr(c, value_dest.e) ELSE
                 LET x == ext_hook(c.ext, "exit", oc)
                     c1 == [c EXCEPT !.ext = x.ext]
                 IN  IF ~x.res.ok THEN FErr(c1, Core(x.res.e))
                     ELSE FErr(c1, Terminated("Exit", value_dest.v))
             IN  IF ~res.ok THEN Output(HostError, [res.ctx EXCEPT !.err = res.e])
                 ELSE Output(HostError, res.ctx)

\* As leave, returning to the guest once the hook succeeded.
leave_returns(c, args, oc) ==
    LET x == ext_hook(c.ext, "leave", oc)
        err == IF ~x.res.ok THEN Core(x.res.e) ELSE Terminated("Leave", <<>>)
    IN  Output(IF x.res.ok THEN Unit ELSE HostError, [c EXCEPT !.ext = x.ext, !.err = err])

leave(c, args, oc) ==
    LET x == ext_hook(c.ext, "leave", oc)
        err == IF ~x.res.ok THEN Core(x.res.e) ELSE Terminated("Leave", <<>>)
    IN  Output(HostError, [c EXCEPT !.ext = x.ext, !.err = err])

\* As wait, the reason standing whatever the hook answers.
wait_keeps_reason(c, args, oc) ==
    LET x == ext_hook(c.ext, "wait", oc)
    IN  Output(HostError, [c EXCEPT !.ext = x.ext, !.err = Terminated("WaitNone", <<>>)])

wait(c, args, oc) ==
    LET x == ext_hook(c.ext, "wait", oc)
        err == IF ~x.res.ok THEN Core(x.res.e) ELSE Terminated("WaitNone", <<>>)
    IN  Output(HostError, [c EXCEPT !.ext = x.ext, !.err = err])

wait_for(c, args, oc) ==
    LET duration_ptr == pop_i32(args, 1, "u32")
    IN  IF ~duration_ptr.ok THEN Output(HostError, c)
        ELSE LET f ==
                 LET duration == read_memory_as(c, duration_ptr.v, U32Len) IN
                 IF ~duration.ok THEN FErr(c, duration.e) ELSE
                 LET x == ext_hook(c.ext, "wait_for", oc)
                     c1 == [c EXCEPT !.ext = x.ext]
                 IN  IF ~x.res.ok THEN FErr(c1, Core(x.res.e))
                     ELSE FOk(c1, <<LeValue(duration.v)>>)
             IN  Output(HostError,
                        [f.ctx EXCEPT !.err = IF f.ok THEN Terminated("WaitSome", f.v)
                                              ELSE f.e])

\* As wait_up_to, the hook being called before the duration is read.
wait_up_to_hook_first(c, args, oc) ==
    LET duration_ptr == pop_i32(args, 1, "u32")
    IN  IF ~duration_ptr.ok THEN Output(HostError, c)
        ELSE LET x == ext_hook(c.ext, "wait_up_to", oc)
                 c1 == [c EXCEPT !.ext = x.ext]
                 duration == read_memory_as(c, duration_ptr.v, U32Len)
             IN  Output(HostError,
                        [c1 EXCEPT !.err =
                             IF ~x.res.ok THEN Core(x.res.e)
                             ELSE IF ~duration.ok THEN duration.e
                             ELSE Terminated("WaitSome", <<LeValue(duration.v)>>)])

wait_up_to(c, args, oc) ==
    LET duration_ptr == pop_i32(args, 1, "u32")
    IN  IF ~duration_ptr.ok THEN Output(HostError, c)
        ELSE LET f ==
                 LET duration == read_memory_as(c, duration_ptr.v, U32Len) IN
                 IF ~duration.ok THEN FErr(c, duration.e) ELSE
                 LET x == ext_hook(c.ext, "wait_up_to", oc)
                     c1 == [c EXCEPT !.ext = x.ext]
                 IN  IF ~x.res.ok THEN FErr(c1, Core(x.res.e))
                     ELSE FOk(c1, <<LeValue(duration.v)>>)
             IN  Output(HostError,
                        [f.ctx EXCEPT !.err = IF f.ok THEN Terminated("WaitSome", f.v)
                                              ELSE f.e])

\* As error, the length being written where the description belongs.
error_writes_len(c, args, oc) ==
    LET data_ptr == pop_i32(args, 1, "u32")
    IN  IF ~data_ptr.ok THEN Output(HostError, c)
        ELSE LET f ==
                 LET err == ext_last_error(c.ext) IN
                 IF err = <<>> THEN FErr(c, SyscallErrorExpected) ELSE
                 LET w == write_output(c, data_ptr.v, <<encoded_size(err[1])>>)
                 IN  IF w.ok THEN FOk(w.v, <<>>) ELSE FErr(c, w.e)
             IN  unit_output(f)

\* As error, nothing on record being no failure.
error_silent(c, args, oc) ==
    LET data_ptr == pop_i32(args, 1, "u32")
    IN  IF ~data_ptr.ok THEN Output(HostError, c)
        ELSE LET f ==
                 LET err == ext_last_error(c.ext) IN
                 IF err = <<>> THEN FOk(c, <<>>) ELSE
                 LET w == write_output(c, data_ptr.v, encode(err[1]))
                 IN  IF w.ok THEN FOk(w.v, <<>>) ELSE FErr(c, w.e)
             IN  unit_output(f)

error(c, args, oc) ==
    LET data_ptr == pop_i32(args, 1, "u32")
    IN  IF ~data_ptr.ok THEN Output(HostError, c)
        ELSE LET f ==
                 LET err == ext_last_error(c.ext) IN
                 IF err = <<>> THEN FErr(c, SyscallErrorExpected) ELSE
                 LET w == write_output(c, data_ptr.v, encode(err[1]))
                 IN  IF w.ok THEN FOk(w.v, <<>>) ELSE FErr(c, w.e)
             IN  unit_output(f)

\* As forbidden, nothing being recorded.
forbidden_silent(c, args, oc) == Output(HostError, c)

forbidden(c, args, oc) ==
    Output(HostError, [c EXCEPT !.err = Core(forbidden_function)])

\* FuncError::as_core: <<>> is None.
as_core(e) == IF e.tag = "Core" THEN <<e.core>> ELSE <<>>

size(c, args, oc) ==
    LET x == ext_get(c.ext, "size", Len(c.ext.payload), oc)
        c1 == [c EXCEPT !.ext = x.ext]
    IN  IF ~x.res.ok THEN Output(HostError, [c1 EXCEPT !.err = Core(x.res.e)])
        ELSE LET r == return_i32(x.res.v)
             IN  IF r.ok THEN Output(r.v, c1) ELSE Output(HostError, c1)

\* As exit_code, a sentinel being returned outside a reply context.
exit_code_sentinel(c, args, oc) ==
    LET x == ext_get(c.ext, "exit_code", c.ext.exitCode, oc)
        c1 == [c EXCEPT !.ext = x.ext]
    IN  IF ~x.res.ok THEN Output(HostError, [c1 EXCEPT !.err = Core(x.res.e)])
        ELSE IF x.res.v # <<>> THEN Output(RetI32(x.res.v[1]), c1)
        ELSE Output(RetI32(-1), c1)

exit_code(c, args, oc) ==
    LET x == ext_get(c.ext, "exit_code", c.ext.exitCode, oc)
        c1 == [c EXCEPT !.ext = x.ext]
    IN  IF ~x.res.ok THEN Output(HostError, [c1 EXCEPT !.err = Core(x.res.e)])
        ELSE IF x.res.v # <<>>
             THEN LET r == return_i32(x.res.v[1])
                  IN  IF r.ok THEN Output(r.v, c1) ELSE Output(HostError, c1)
             ELSE Output(HostError, [c1 EXCEPT !.err = NonReplyExitCode])
\* As gas, every charge error that is no GasAllowanceExceeded being recorded as a Core error.
gas_records_core(c, args, oc) ==
    LET val == pop_i32(args, 1, "u32")
    IN  IF ~val.ok THEN Output(HostError, c)
        ELSE LET x == ext_gas(c.ext, val.v, oc)
                 c1 == [c EXCEPT !.ext = x.ext]
             IN  IF x.res.ok THEN Output(Unit, c1)
                 ELSE LET e == Core(x.res.e)
                          core == as_core(e)
                          reason == IF core = <<>> THEN <<>>
                                    ELSE as_termination_reason(core[1])
                      IN  IF reason = <<"GasAllowanceExceeded">>
                          THEN Output(HostError,
                                      [c1 EXCEPT !.err =
                                           Terminated("GasAllowanceExceeded", <<>>)])
                          ELSE Output(HostError, [c1 EXCEPT !.err = e])

gas(c, args, oc) ==
    LET val == pop_i32(args, 1, "u32")
    IN  IF ~val.ok THEN Output(HostError, c)
        ELSE LET x == ext_gas(c.ext, val.v, oc)
                 c1 == [c EXCEPT !.ext = x.ext]
             IN  IF x.res.ok THEN Output(Unit, c1)
                 ELSE LET e == Core(x.res.e)
                          core == as_core(e)
                          reason == IF core = <<>> THEN <<>>
                                    ELSE as_termination_reason(core[1])
                      IN  IF reason = <<"GasAllowanceExceeded">>
                          THEN Output(HostError,
                                      [c1 EXCEPT !.err =
                                           Terminated("GasAllowanceExceeded", <<>>)])
                          ELSE Output(HostError, c1)

alloc(c, args, oc) ==
    LET pages == pop_i32(args, 1, "u32")
    IN  IF ~pages.ok THEN Output(HostError, c)
        ELSE LET a == runtime_alloc(c, pages.v)
             IN  IF a.ok THEN Output(RetI32(AsI32(a.v.page)), a.v.ctx)
                 ELSE Output(HostError, [c EXCEPT !.err = a.e])

free(c, args, oc) ==
    LET page == pop_i32(args, 1, "u32")
    IN  IF ~page.ok THEN Output(HostError, c)
        ELSE LET x == ext_free(c.ext, page.v, oc)
                 c1 == [c EXCEPT !.ext = x.ext]
             IN  IF ~x.res.ok THEN Output(HostError, [c1 EXCEPT !.err = Core(x.res.e)])
                 ELSE Output(Unit, c1)

block_height(c, args, oc) ==
    LET x == ext_get(c.ext, "block_height", c.ext.blockHeight, oc)
        c1 == [c EXCEPT !.ext = x.ext]
    IN  IF ~x.res.ok THEN Output(HostError, [c1 EXCEPT !.err = Core(x.res.e)])
        ELSE LET r == return_i32(x.res.v)
             IN  IF r.ok THEN Output(r.v, c1) ELSE Output(HostError, c1)

block_timestamp(c, args, oc) ==
    LET x == ext_get(c.ext, "block_timestamp", 1000 + c.ext.blockHeight, oc)
        c1 == [c EXCEPT !.ext = x.ext]
    IN  IF ~x.res.ok THEN Output(HostError, [c1 EXCEPT !.err = Core(x.res.e)])
        ELSE LET r == return_i64(x.res.v)
             IN  IF r.ok THEN Output(r.v, c1) ELSE Output(HostError, c1)

\* The closure of origin, msg_id, program_id, value and value_available:
\* x is the accessor's answer, written at ptr.
write_answer(c, x, ptr) ==
    LET c1 == [c EXCEPT !.ext = x.ext]
    IN  IF ~x.res.ok THEN FErr(c1, Core(x.res.e))
        ELSE LET w == write_output(c1, ptr, x.res.v)
             IN  IF w.ok THEN FOk(w.v, <<>>) ELSE FErr(c1, w.e)

origin(c, args, oc) ==
    LET origin_ptr == pop_i32(args, 1, "u32")
    IN  IF ~origin_ptr.ok THEN Output(HostError, c)
        ELSE LET x == ext_get(c.ext, "origin", ProgId(5), oc)
             IN  unit_output(write_answer(c, x, origin_ptr.v))

\* As reply_to, the absence of a reply context being found after the write.
reply_to_zero_id(c, args, oc) ==
    LET dest == pop_i32(args, 1, "u32")
    IN  IF ~dest.ok THEN Output(HostError, c)
        ELSE LET x == ext_get(c.ext, "reply_to", c.ext.replyTo, oc)
                 c1 == [c EXCEPT !.ext = x.ext]
             IN  IF ~x.res.ok THEN Output(HostError, [c1 EXCEPT !.err = Core(x.res.e)])
                 ELSE LET id == IF x.res.v # <<>> THEN x.res.v[1] ELSE [i \in 1..IdLen |-> 0]
                          w == write_output(c1, dest.v, id)
                      IN  IF ~w.ok THEN Output(HostError, [c1 EXCEPT !.err = w.e])
                          ELSE IF x.res.v # <<>> THEN Output(Unit, w.v)
                          ELSE Output(HostError, [w.v EXCEPT !.err = NoReplyContext])

reply_to(c, args, oc) ==
    LET dest == pop_i32(args, 1, "u32")
    IN  IF ~dest.ok THEN Output(HostError, c)
        ELSE LET x == ext_get(c.ext, "reply_to", c.ext.replyTo, oc)
                 c1 == [c EXCEPT !.ext = x.ext]
             IN  IF ~x.res.ok THEN Output(HostError, [c1 EXCEPT !.err = Core(x.res.e)])
                 ELSE IF x.res.v # <<>>
                      THEN LET w == write_output(c1, dest.v, x.res.v[1])
                           IN  IF w.ok THEN Output(Unit, w.v)
                               ELSE Output(HostError, [c1 EXCEPT !.err = w.e])
                      ELSE Output(HostError, [c1 EXCEPT !.err = NoReplyContext])
\* As debug, the bytes being read before the buffer is sized.
debug_reads_first(c, args, oc) ==
    LET str_ptr == pop_i32(args, 1, "u32")
        str_len == pop_i32(args, 2, "usize")
    IN  IF ~(str_ptr.ok /\ str_len.ok) THEN Output(HostError, c)
        ELSE LET f ==
                 LET buf == read_memory_into_buf(c, str_ptr.v, str_len.v) IN
                 IF ~buf.ok THEN FErr(c, buf.e) ELSE
                 LET data == try_new_default(str_len.v) IN
                 IF ~data.ok THEN FErr(c, data.e) ELSE
                 LET s == from_utf8(buf.v) IN
                 IF ~s.ok THEN FErr(c, s.e) ELSE
                 LET x == ext_debug(c.ext, s.v, oc)
                     c1 == [c EXCEPT !.ext = x.ext]
                 IN  IF ~x.res.ok THEN FErr(c1, Core(x.res.e)) ELSE FOk(c1, <<>>)
             IN  unit_output(f)

debug(c, args, oc) ==
    LET str_ptr == pop_i32(args, 1, "u32")
        str_len == pop_i32(args, 2, "usize")
    IN  IF ~(str_ptr.ok /\ str_len.ok) THEN Output(HostError, c)
        ELSE LET f ==
                 LET data == try_new_default(str_len.v) IN
                 IF ~data.ok THEN FErr(c, data.e) ELSE
                 LET buf == read_memory_into_buf(c, str_ptr.v, data.v) IN
                 IF ~buf.ok THEN FErr(c, buf.e) ELSE
                 LET s == from_utf8(buf.v) IN
                 IF ~s.ok THEN FErr(c, s.e) ELSE
                 LET x == ext_debug(c.ext, s.v, oc)
                     c1 == [c EXCEPT !.ext = x.ext]
                 IN  IF ~x.res.ok THEN FErr(c1, Core(x.res.e)) ELSE FOk(c1, <<>>)
             IN  unit_output(f)

\* As gas_available, the accessor's error being recorded.
gas_available_records(c, args, oc) ==
    LET x == ext_get(c.ext, "gas_available", c.ext.gasAvailable, oc)
        c1 == [c EXCEPT !.ext = x.ext]
    IN  IF ~x.res.ok THEN Output(HostError, [c1 EXCEPT !.err = Core(x.res.e)])
        ELSE LET r == return_i64(x.res.v)
             IN  IF r.ok THEN Output(r.v, c1) ELSE Output(HostError, c1)

gas_available(c, args, oc) ==
    LET x == ext_get(c.ext, "gas_available", c.ext.gasAvailable, oc)
        c1 == [c EXCEPT !.ext = x.ext]
    IN  IF ~x.res.ok THEN Output(HostError, c1)
        ELSE LET r == return_i64(x.res.v)
             IN  IF r.ok THEN Output(r.v, c1) ELSE Output(HostError, c1)

msg_id(c, args, oc) ==
    LET msg_id_ptr == pop_i32(args, 1, "u32")
    IN  IF ~msg_id_ptr.ok THEN Output(HostError, c)
        ELSE LET x == ext_get(c.ext, "message_id", MsgId(0), oc)
             IN  unit_output(write_answer(c, x, msg_id_ptr.v))

program_id(c, args, oc) ==
    LET program_id_ptr == pop_i32(args, 1, "u32")
    IN  IF ~program_id_ptr.ok THEN Output(HostError, c)
        ELSE LET x == ext_get(c.ext, "program_id", ProgId(0), oc)
             IN  unit_output(write_answer(c, x, program_id_ptr.v))

source(c, args, oc) ==
    LET source_ptr == pop_i32(args, 1, "u32")
    IN  IF ~source_ptr.ok THEN Output(HostError, c)
        ELSE LET x == ext_get(c.ext, "source", ProgId(6), oc)
                 c1 == [c EXCEPT !.ext = x.ext]
             IN  IF x.res.ok
                 THEN LET w == write_output(c1, source_ptr.v, x.res.v)
                      IN  IF w.ok THEN Output(Unit, w.v)
                          ELSE Output(HostError, [c1 EXCEPT !.err = w.e])
                 ELSE Output(HostError, [c1 EXCEPT !.err = Core(x.res.e)])

value(c, args, oc) ==
    LET value_ptr == pop_i32(args, 1, "u32")
    IN  IF ~value_ptr.ok THEN Output(HostError, c)
        ELSE LET x == ext_get(c.ext, "value", [i \in 1..U128Len |-> 60 + i], oc)
             IN  unit_output(write_answer(c, x, value_ptr.v))

value_available(c, args, oc) ==
    LET value_ptr == pop_i32(args, 1, "u32")
    IN  IF ~value_ptr.ok THEN Output(HostError, c)
        ELSE LET x == ext_get(c.ext, "value_available", [i \in 1..U128Len |-> 80 + i], oc)
             IN  unit_output(write_answer(c, x, value_ptr.v))
\* As wake, ending the caller like wait_for once the message is rescheduled.
wake_terminates(c, args, oc) ==
    LET waker_id_ptr == pop_i32(args, 1, "u32")
        delay_ptr == pop_i32(args, 2, "u32")
    IN  IF ~(waker_id_ptr.ok /\ delay_ptr.ok) THEN Output(HostError, c)
        ELSE LET f ==
                 LET waker_id == read_memory_as(c, waker_id_ptr.v, IdLen) IN
                 IF ~waker_id.ok THEN FErr(c, waker_id.e) ELSE
                 LET delay == read_memory_as(c, delay_ptr.v, U32Len) IN
                 IF ~delay.ok THEN FErr(c, delay.e) ELSE
                 LET x == ext_wake(c.ext, waker_id.v, LeValue(delay.v), oc)
                     c1 == [c EXCEPT !.ext = x.ext]
                 IN  IF ~x.res.ok THEN FErr(c1, Core(x.res.e)) ELSE FErr(c1, Terminated("Wait", <<LeValue(delay.v)>>))
             IN  unit_output(f)

wake(c, args, oc) ==
    LET waker_id_ptr == pop_i32(args, 1, "u32")
        delay_ptr == pop_i32(args, 2, "u32")
    IN  IF ~(waker_id_ptr.ok /\ delay_ptr.ok) THEN Output(HostError, c)
        ELSE LET f ==
                 LET waker_id == read_memory_as(c, waker_id_ptr.v, IdLen) IN
                 IF ~waker_id.ok THEN FErr(c, waker_id.e) ELSE
                 LET delay == read_memory_as(c, delay_ptr.v, U32Len) IN
                 IF ~delay.ok THEN FErr(c, delay.e) ELSE
                 LET x == ext_wake(c.ext, waker_id.v, LeValue(delay.v), oc)
                     c1 == [c EXCEPT !.ext = x.ext]
                 IN  IF ~x.res.ok THEN FErr(c1, Core(x.res.e)) ELSE FOk(c1, <<>>)
             IN  unit_output(f)

\* Display for FuncError: the text, piece by piece.
to_string(e) ==
    CASE e.tag = "Core" -> <<e.core>>
      [] e.tag = "RuntimeCtx" -> <<e.core>>
      [] e.tag = "Memory" -> <<e.core>>
      [] e.tag = "PayloadSize" -> <<"PayloadSizeError">>
      [] e.tag = "RuntimeBufferSize" -> <<"RuntimeBufferSizeError">>
      [] e.tag = "SetU128" -> <<"Cannot set u128: ", e.core>>
      [] e.tag = "NonReplyExitCode" -> <<"Exit code ran into non-reply scenario">>
      [] e.tag = "NoReplyContext" -> <<"Not running in reply context">>
      [] e.tag = "DebugString" -> <<"Failed to parse debug string: ", ToString(e.data)>>
      [] e.tag = "SyscallErrorExpected" -> <<"gr_error expects error occurred earlier">>
      [] e.tag = "Terminated" -> <<"Terminated: ", e.core, ToString(e.data)>>
      [] e.tag = "ReadWrongRange" ->
            <<"Cannot take data by indexes ", ToString(e.data[1]), "..",
              ToString(e.data[2]), " from message with size ", ToString(e.data[3])>>
      [] e.tag = "ReadLenOverflow" ->
            <<"Overflow at ", ToString(e.data[1]), " + len ", ToString(e.data[2]),
              " in gr_read">>

\* TerminationReason::Trap(TrapExplanation::Other(text))

\* As into_termination_reason, every error becoming a trap explanation.
into_termination_reason_all_traps(e) == [reason |-> "Trap", data |-> to_string(e)]

into_termination_reason(e) ==
    IF e.tag = "Terminated" THEN [reason |-> e.core, data |-> e.data]
    ELSE [reason |-> "Trap", data |-> to_string(e)]

(* --------------------------- the guest's calls ------------------------- *)

\* Guest memory when the call starts.
\* Byte 6 is no UTF-8.
mem0 == [i \in 0..(MemSize - 1) |-> IF i = 6 THEN 255 ELSE (i % 5) + 1]

ext0(n) ==
    [payload |-> [i \in 1..n |-> 50 + i], outgoing |-> <<>>, handles |-> <<>>, replyBuf |-> <<>>,
     replied |-> FALSE, lastError |-> "", invoked |-> <<>>,
     exitCode |-> <<>>, replyTo |-> <<>>, blockHeight |-> 7, gasAvailable |-> 300,
     debugged |-> <<>>, woken |-> <<>>, allocated |-> {0}]

\* The extension when the message handled is a reply (to MsgId(7), with exit
\* code 1), late in the chain's life.
ext0_reply(n) ==
    [ext0(n) EXCEPT !.exitCode = <<1>>, !.replyTo = <<MsgId(7)>>,
                    !.blockHeight = I32Max + 1]

\* Argument lists the guest passes: a well-formed list, that list with one
\* argument replaced, and that list with its last argument missing.
Alt(kind) ==
    CASE kind = "ptr" -> {I32(-1), I32(MemSize - 1)}
      [] kind = "out" -> {I32(-1), I32(MemSize - 1), I64(0)}
      [] kind = "len" -> {I32(-1), I32(MaxPayload + 1), I32(MemSize)}
      [] kind = "gas" -> {I64(-1), I32(0)}
      [] kind = "handle" -> {I32(-1), I32(1)}

ArgLists(base, kinds) ==
    {base}
    \cup UNION {{[base EXCEPT ![i] = v] : v \in Alt(kinds[i])} : i \in DOMAIN base}
    \cup {SubSeq(base, 1, Len(base) - 1)}



OnePtrArgs ==
    {<<v>> : v \in {I32(-1), I32(0), I32(8), I32(MemSize - 3), I32(MemSize - 1),
                    I64(0)}} \cup {<<>>}

NoArgs == {<<>>, <<I32(0)>>}
OutPtrArgs == {<<I32(-1)>>, <<I32(0)>>, <<I32(MemSize - 1)>>}

\* The extension a guest call starts with: handling an empty message, or a
\* reply with a payload.

\* The host has not read the trap context.
NoTermination == [reason |-> "None", data |-> <<>>]

(* ----------------------------- the machine ----------------------------- *)

Init ==
    /\ \E ext \in {ext0(0), ext0_reply(MaxMsgLen)} :
          /\ ctx = [mem |-> mem0, err |-> ErrUnset, ext |-> ext]
          /\ last = [op |-> "none", args |-> <<>>, ret |-> Unit, pre |-> ctx]
    /\ calls = 0
    /\ termination = NoTermination
    /\ pushed = <<>>
    /\ context = [programs |-> <<>>, codes |-> <<>>]
    /\ applied = [initial |-> context, updates |-> <<>>]

\* The guest runs until a syscall traps.
Running == last.ret.sig # "Trap" /\ calls < MaxCalls

\* The Runtime as a handler finds it.
Enter == [ctx EXCEPT !.ext.invoked = <<>>]

\* One handler invocation. `quiet` is the handler's output when the extension
\* answers Ok and `all` its outputs under every answer the extension may
\* give: a handler that returns without invoking the extension hears no
\* answer, so it has the one output.
Syscall(op, args, quiet, all) ==
    \E r \in (IF quiet.ctx.ext.invoked = <<>> THEN {quiet} ELSE all) :
        /\ ctx' = r.ctx
        /\ last' = [op |-> op, args |-> args, ret |-> r.out, pre |-> ctx]
        /\ calls' = calls + 1
        /\ pushed' =
              IF r.out = RetI32(0) /\ op = "send_init"
              THEN (LeValue(Slice(r.ctx.mem, args[1].val, U32Len))
                        :> [bytes |-> <<>>, commits |-> 0]) @@ pushed
              ELSE IF r.out = RetI32(0) /\ op = "send_push" /\ args[1].val \in DOMAIN pushed
              THEN [pushed EXCEPT ![args[1].val].bytes =
                                      @ \o Slice(ctx.mem, args[2].val, args[3].val)]
              ELSE IF r.out = RetI32(0) /\ op = "send_commit" /\ args[1].val \in DOMAIN pushed
              THEN [pushed EXCEPT ![args[1].val].commits = @ + 1]
              ELSE pushed
        /\ UNCHANGED <<termination, context, applied>>

CallSend ==
    /\ Running
    /\ \E args \in
              ArgLists(<<I32(0), I32(4), I32(2), I32(16), I32(8), I32(36)>>,
                       <<"ptr", "ptr", "len", "ptr", "out", "ptr">>)
              \cup {<<I32(0), I32(4), I32(MaxPayload + 1), I32(MemSize - 1), I32(8), I32(36)>>} :
          Syscall("send", args, send(Enter, args, "Ok"),
                  {send(Enter, args, oc) : oc \in ExtOutcomes})

CallSendWgas ==
    /\ Running
    /\ \E args \in
              ArgLists(<<I32(0), I32(4), I32(2), I64(5), I32(16), I32(8), I32(36)>>,
                       <<"ptr", "ptr", "len", "gas", "ptr", "out", "ptr">>) :
          Syscall("send_wgas", args, send_wgas(Enter, args, "Ok"),
                  {send_wgas(Enter, args, oc) : oc \in ExtOutcomes})

CallSendCommit ==
    /\ Running
    /\ \E args \in
              ArgLists(<<I32(0), I32(8), I32(0), I32(16), I32(36)>>,
                       <<"handle", "out", "ptr", "ptr", "ptr">>) :
          Syscall("send_commit", args, send_commit(Enter, args, "Ok"),
                  {send_commit(Enter, args, oc) : oc \in ExtOutcomes})

CallSendCommitWgas ==
    /\ Running
    /\ \E args \in
              ArgLists(<<I32(0), I32(8), I32(0), I64(5), I32(16), I32(36)>>,
                       <<"handle", "out", "ptr", "gas", "ptr", "ptr">>) :
          Syscall("send_commit_wgas", args, send_commit_wgas(Enter, args, "Ok"),
                  {send_commit_wgas(Enter, args, oc) : oc \in ExtOutcomes})

CallSendInit ==
    /\ Running
    /\ \E args \in
              ArgLists(<<I32(8)>>, <<"out">>) :
          Syscall("send_init", args, send_init(Enter, args, "Ok"),
                  {send_init(Enter, args, oc) : oc \in ExtOutcomes})

CallSendPush ==
    /\ Running
    /\ \E args \in
              ArgLists(<<I32(0), I32(4), I32(2)>>, <<"handle", "ptr", "len">>) :
          Syscall("send_push", args, send_push(Enter, args, "Ok"),
                  {send_push(Enter, args, oc) : oc \in ExtOutcomes})

CallReply ==
    /\ Running
    /\ \E args \in
              ArgLists(<<I32(4), I32(2), I32(16), I32(8), I32(36)>>,
                       <<"ptr", "len", "ptr", "out", "ptr">>) :
          Syscall("reply", args, reply(Enter, args, "Ok"),
                  {reply(Enter, args, oc) : oc \in ExtOutcomes})

CallReplyWgas ==
    /\ Running
    /\ \E args \in
              ArgLists(<<I32(4), I32(2), I64(5), I32(16), I32(8), I32(36)>>,
                       <<"ptr", "len", "gas", "ptr", "out", "ptr">>) :
          Syscall("reply_wgas", args, reply_wgas(Enter, args, "Ok"),
                  {reply_wgas(Enter, args, oc) : oc \in ExtOutcomes})

CallReplyCommit ==
    /\ Running
    /\ \E args \in
              ArgLists(<<I32(16), I32(8), I32(36)>>, <<"ptr", "out", "ptr">>) :
          Syscall("reply_commit", args, reply_commit(Enter, args, "Ok"),
                  {reply_commit(Enter, args, oc) : oc \in ExtOutcomes})

CallReplyCommitWgas ==
    /\ Running
    /\ \E args \in
              ArgLists(<<I64(5), I32(16), I32(8), I32(36)>>, <<"gas", "ptr", "out", "ptr">>) :
          Syscall("reply_commit_wgas", args, reply_commit_wgas(Enter, args, "Ok"),
                  {reply_commit_wgas(Enter, args, oc) : oc \in ExtOutcomes})

CallReplyPush ==
    /\ Running
    /\ \E args \in
              ArgLists(<<I32(4), I32(2)>>, <<"ptr", "len">>) :
          Syscall("reply_push", args, reply_push(Enter, args, "Ok"),
                  {reply_push(Enter, args, oc) : oc \in ExtOutcomes})

CallCreateProgram ==
    /\ Running
    /\ \E args \in
              ArgLists(<<I32(0), I32(2), I32(1), I32(4), I32(2), I32(16), I32(8), I32(36)>>,
                       <<"ptr", "ptr", "len", "ptr", "len", "ptr", "out", "ptr">>)
              \cup {<<I32(0), I32(2), I32(1), I32(4), I32(MaxPayload + 1), I32(MemSize - 1),
                      I32(8), I32(36)>>} :
          Syscall("create_program", args, create_program(Enter, args, "Ok"),
                  {create_program(Enter, args, oc) : oc \in ExtOutcomes})

CallCreateProgramWgas ==
    /\ Running
    /\ \E args \in
              ArgLists(<<I32(0), I32(2), I32(1), I32(4), I32(2), I64(5), I32(16), I32(8), I32(36)>>,
                       <<"ptr", "ptr", "len", "ptr", "len", "gas", "ptr", "out", "ptr">>) :
          Syscall("create_program_wgas", args, create_program_wgas(Enter, args, "Ok"),
                  {create_program_wgas(Enter, args, oc) : oc \in ExtOutcomes})

CallRead ==
    /\ Running
    /\ \E args \in
              {<<a, l, d>> : a \in {I32(0), I32(3), I32(I32Max)},
                             l \in {I32(0), I32(2), I32(10), I32(I32Max)},
                             d \in {I32(0), I32(MemSize - 1)}}
              \cup {<<I32(-1), I32(2), I32(0)>>, <<I32(0), I32(-1), I32(0)>>,
                    <<I32(0), I32(2), I32(-1)>>, <<I32(0), I32(2), I64(0)>>,
                    <<I32(0), I32(0)>>},
          bits \in UsizeWidths :
          Syscall("read", args, read(Enter, args, "Ok", bits),
                  {read(Enter, args, oc, bits) : oc \in AccessorOutcomes})

CallExit ==
    /\ Running
    /\ \E args \in OnePtrArgs :
          Syscall("exit", args, exit(Enter, args, "Ok"),
                  {exit(Enter, args, oc) : oc \in ExtOutcomes})

CallLeave ==
    /\ Running
    /\ \E args \in NoArgs :
          Syscall("leave", args, leave(Enter, args, "Ok"),
                  {leave(Enter, args, oc) : oc \in ExtOutcomes})

CallWait ==
    /\ Running
    /\ \E args \in NoArgs :
          Syscall("wait", args, wait(Enter, args, "Ok"),
                  {wait(Enter, args, oc) : oc \in ExtOutcomes})

CallWaitFor ==
    /\ Running
    /\ \E args \in OnePtrArgs :
          Syscall("wait_for", args, wait_for(Enter, args, "Ok"),
                  {wait_for(Enter, args, oc) : oc \in ExtOutcomes})

CallWaitUpTo ==
    /\ Running
    /\ \E args \in OnePtrArgs :
          Syscall("wait_up_to", args, wait_up_to(Enter, args, "Ok"),
                  {wait_up_to(Enter, args, oc) : oc \in ExtOutcomes})

CallError ==
    /\ Running
    /\ \E args \in OnePtrArgs :
          Syscall("error", args, error(Enter, args, "Ok"),
                  {error(Enter, args, oc) : oc \in {"Ok"}})

CallForbidden ==
    /\ Running
    /\ \E args \in NoArgs :
          Syscall("forbidden", args, forbidden(Enter, args, "Ok"),
                  {forbidden(Enter, args, oc) : oc \in {"Ok"}})

CallSize ==
    /\ Running
    /\ \E args \in {<<>>} :
          Syscall("size", args, size(Enter, args, "Ok"),
                  {size(Enter, args, oc) : oc \in AccessorOutcomes})

CallExitCode ==
    /\ Running
    /\ \E args \in {<<>>} :
          Syscall("exit_code", args, exit_code(Enter, args, "Ok"),
                  {exit_code(Enter, args, oc) : oc \in AccessorOutcomes})

CallGas ==
    /\ Running
    /\ \E args \in
              {<<I32(-1)>>, <<I32(5)>>} :
          Syscall("gas", args, gas(Enter, args, "Ok"),
                  {gas(Enter, args, oc) : oc \in {"Ok", "GasAllowanceExceeded"} \cup FatalErrors})

CallAlloc ==
    /\ Running
    /\ \E args \in
              {<<I32(-1)>>, <<I32(1)>>, <<I32(MaxPages)>>} :
          Syscall("alloc", args, alloc(Enter, args, "Ok"),
                  {alloc(Enter, args, oc) : oc \in {"Ok"}})

CallFree ==
    /\ Running
    /\ \E args \in
              {<<I32(-1)>>, <<I32(1)>>} :
          Syscall("free", args, free(Enter, args, "Ok"),
                  {free(Enter, args, oc) : oc \in AccessorOutcomes})

CallBlockHeight ==
    /\ Running
    /\ \E args \in {<<>>} :
          Syscall("block_height", args, block_height(Enter, args, "Ok"),
                  {block_height(Enter, args, oc) : oc \in AccessorOutcomes})

CallBlockTimestamp ==
    /\ Running
    /\ \E args \in {<<>>} :
          Syscall("block_timestamp", args, block_timestamp(Enter, args, "Ok"),
                  {block_timestamp(Enter, args, oc) : oc \in AccessorOutcomes})

CallOrigin ==
    /\ Running
    /\ \E args \in OutPtrArgs :
          Syscall("origin", args, origin(Enter, args, "Ok"),
                  {origin(Enter, args, oc) : oc \in AccessorOutcomes})

CallReplyTo ==
    /\ Running
    /\ \E args \in OutPtrArgs :
          Syscall("reply_to", args, reply_to(Enter, args, "Ok"),
                  {reply_to(Enter, args, oc) : oc \in AccessorOutcomes})

CallDebug ==
    /\ Running
    /\ \E args \in
              ArgLists(<<I32(4), I32(2)>>, <<"ptr", "len">>)
              \cup {<<I32(6), I32(1)>>, <<I32(6), I32(MaxBuffer + 1)>>} :
          Syscall("debug", args, debug(Enter, args, "Ok"),
                  {debug(Enter, args, oc) : oc \in AccessorOutcomes})

CallGasAvailable ==
    /\ Running
    /\ \E args \in {<<>>} :
          Syscall("gas_available", args, gas_available(Enter, args, "Ok"),
                  {gas_available(Enter, args, oc) : oc \in AccessorOutcomes})

CallMsgId ==
    /\ Running
    /\ \E args \in OutPtrArgs :
          Syscall("msg_id", args, msg_id(Enter, args, "Ok"),
                  {msg_id(Enter, args, oc) : oc \in AccessorOutcomes})

CallProgramId ==
    /\ Running
    /\ \E args \in OutPtrArgs :
          Syscall("program_id", args, program_id(Enter, args, "Ok"),
                  {program_id(Enter, args, oc) : oc \in AccessorOutcomes})

CallSource ==
    /\ Running
    /\ \E args \in OutPtrArgs :
          Syscall("source", args, source(Enter, args, "Ok"),
                  {source(Enter, args, oc) : oc \in AccessorOutcomes})

CallValue ==
    /\ Running
    /\ \E args \in OutPtrArgs :
          Syscall("value", args, value(Enter, args, "Ok"),
                  {value(Enter, args, oc) : oc \in AccessorOutcomes})

CallValueAvailable ==
    /\ Running
    /\ \E args \in OutPtrArgs :
          Syscall("value_available", args, value_available(Enter, args, "Ok"),
                  {value_available(Enter, args, oc) : oc \in AccessorOutcomes})

CallWake ==
    /\ Running
    /\ \E args \in
              ArgLists(<<I32(0), I32(36)>>, <<"ptr", "ptr">>) :
          Syscall("wake", args, wake(Enter, args, "Ok"),
                  {wake(Enter, args, oc) : oc \in AccessorOutcomes})

\* The host, the sandbox call having returned with a trap, turns the error
\* the trap context holds into the termination reason.
HostTerminates ==
    /\ last.ret.sig = "Trap"
    /\ ctx.err # ErrUnset
    /\ termination = NoTermination
    /\ termination' = into_termination_reason(ctx.err)
    /\ UNCHANGED <<ctx, last, calls, pushed, context, applied>>

Next ==
    \/ CallSend
    \/ CallSendWgas
    \/ CallSendCommit
    \/ CallSendCommitWgas
    \/ CallSendInit
    \/ CallSendPush
    \/ CallReply
    \/ CallReplyWgas
    \/ CallReplyCommit
    \/ CallReplyCommitWgas
    \/ CallReplyPush
    \/ CallCreateProgram
    \/ CallCreateProgramWgas
    \/ CallRead
    \/ CallExit
    \/ CallLeave
    \/ CallWait
    \/ CallWaitFor
    \/ CallWaitUpTo
    \/ CallError
    \/ CallForbidden
    \/ CallSize
    \/ CallExitCode
    \/ CallGas
    \/ CallAlloc
    \/ CallFree
    \/ CallBlockHeight
    \/ CallBlockTimestamp
    \/ CallOrigin
    \/ CallReplyTo
    \/ CallDebug
    \/ CallGasAvailable
    \/ CallMsgId
    \/ CallProgramId
    \/ CallSource
    \/ CallValue
    \/ CallValueAvailable
    \/ CallWake
    \/ HostTerminates

Spec == Init /\ [][Next]_vars

\* A guest call that only sends: the handlers that hand the extension an
\* outgoing message or a part of one.
OutgoingSpec ==
    Init /\ [][\/ CallSend \/ CallSendWgas
              \/ CallSendCommit \/ CallSendCommitWgas
              \/ CallSendInit \/ CallSendPush
              \/ CallReply \/ CallReplyWgas
              \/ CallReplyCommit \/ CallReplyCommitWgas
              \/ CallReplyPush
              \/ CallCreateProgram \/ CallCreateProgramWgas]_vars

\* A guest call that builds outgoing messages in parts: send_init, send_push
\* and send_commit only, on the handles of the call.
PartsSendInit ==
    /\ last.ret.sig # "Trap" /\ calls < MaxChain
    /\ Syscall("send_init", <<I32(8)>>, send_init(Enter, <<I32(8)>>, "Ok"),
               {send_init(Enter, <<I32(8)>>, oc) : oc \in {"Ok", "NotEnoughValue"}})

PartsSendPush ==
    /\ last.ret.sig # "Trap" /\ calls < MaxChain
    /\ \E args \in {<<I32(h), I32(p[1]), I32(p[2])>> :
                          h \in 0..(MaxHandles - 1), p \in {<<4, 1>>, <<0, 2>>}} :
          Syscall("send_push", args, send_push(Enter, args, "Ok"),
                  {send_push(Enter, args, oc) : oc \in {"Ok", "NotEnoughValue"}})

PartsSendCommit ==
    /\ last.ret.sig # "Trap" /\ calls < MaxChain
    /\ \E args \in {<<I32(h), I32(8), I32(0), I32(16), I32(36)>> : h \in 0..(MaxHandles - 1)} :
          Syscall("send_commit", args, send_commit(Enter, args, "Ok"),
                  {send_commit(Enter, args, oc) : oc \in {"Ok", "NotEnoughValue"}})

PartsSpec == Init /\ [][PartsSendInit \/ PartsSendPush \/ PartsSendCommit]_vars

(* --------------- batch pool: Context and ContextUpdate ------------------ *)

\* BTreeSet<ProgramId> / BTreeSet<CodeId> over the ids 1..n: the elements in
\* ascending order, none twice.
BTreeSets(n) ==
    {s \in UNION {[1..k -> 1..n] : k \in 0..n} :
        \A i \in 1..(Len(s) - 1) : s[i] < s[i + 1]}

\* BTreeSet::append: the two ordered sets merged, an element of both kept once.
RECURSIVE append(_, _)
append(self, other) ==
    IF self = <<>> THEN other
    ELSE IF other = <<>> THEN self
    ELSE IF self[1] < other[1] THEN <<self[1]>> \o append(Tail(self), other)
    ELSE IF other[1] < self[1] THEN <<other[1]>> \o append(self, Tail(other))
    ELSE <<other[1]>> \o append(Tail(self), Tail(other))

\* impl From<Report> for ContextUpdate
from_report(report) == [program_ids |-> report.program_ids, codes |-> report.codes]

\* As Context::update, the update's sets taking the place of the Context's.
update_replaces(self, upd) ==
    [self EXCEPT !.programs = upd.program_ids, !.codes = upd.codes]

\* Context::update
update(self, upd) ==
    [self EXCEPT !.programs = append(@, upd.program_ids),
                 !.codes = append(@, upd.codes)]

\* The pool's Context: Context::new(), or a clone of one that holds ids.
PoolInit ==
    /\ ctx = [mem |-> mem0, err |-> ErrUnset, ext |-> ext0(0)]
    /\ last = [op |-> "none", args |-> <<>>, ret |-> Unit, pre |-> ctx]
    /\ calls = 0
    /\ termination = NoTermination
    /\ pushed = <<>>
    /\ context \in {[programs |-> <<>>, codes |-> <<>>],
                    [programs |-> <<MaxPrograms>>, codes |-> <<1>>]}
    /\ applied = [initial |-> context, updates |-> <<>>]

\* A batch's Report is turned into a ContextUpdate and applied.
ApplyUpdate ==
    /\ Len(applied.updates) < MaxUpdates
    /\ \E p \in BTreeSets(MaxPrograms), c \in BTreeSets(MaxCodes) :
          LET report == [program_ids |-> p, codes |-> c]
          IN  /\ context' = update(context, from_report(report))
              /\ applied' = [applied EXCEPT !.updates = Append(@, from_report(report))]
    /\ UNCHANGED <<ctx, last, calls, termination, pushed>>

PoolSpec == PoolInit /\ [][ApplyUpdate]_vars

(* ------------------------------ properties ----------------------------- *)

Trapped == last.ret.sig = "Trap"
MemUnchanged == ctx.mem = last.pre.mem
ErrUnchanged == ctx.err = last.pre.err

\* What the extension answered to the last handler: "none" when the handler
\* did not invoke it.
ExtResult == IF ctx.ext.invoked = <<>> THEN "none" ELSE ctx.ext.invoked[1].res

\* The extension's record of messages, handles and reply buffer is as before.
NothingPerformed ==
    /\ ctx.ext.outgoing = last.pre.ext.outgoing
    /\ ctx.ext.handles = last.pre.ext.handles
    /\ ctx.ext.replyBuf = last.pre.ext.replyBuf
    /\ ctx.ext.replied = last.pre.ext.replied

\* The bytes of memory m outside [ptr, ptr + len) are those of memory n.
SameOutside(m, n, ptr, len) ==
    \A i \in 0..(MemSize - 1) : (i < ptr \/ i >= ptr + len) => m[i] = n[i]

IdHandlers ==
    {"send", "send_wgas", "send_commit", "send_commit_wgas", "send_init", "reply",
     "reply_wgas", "reply_commit", "reply_commit_wgas", "create_program",
     "create_program_wgas"}
PushHandlers == {"send_push", "reply_push"}
OutgoingHandlers == IdHandlers \cup PushHandlers
SizedPayloadHandlers ==
    {"send", "send_wgas", "reply", "reply_wgas", "create_program", "create_program_wgas"}

\* Position of the output pointer in an id-producing handler's arguments.
OutIndex(op) ==
    CASE op = "send" -> 5
      [] op = "send_wgas" -> 6
      [] op \in {"send_commit", "send_commit_wgas", "reply_commit"} -> 2
      [] op = "send_init" -> 1
      [] op = "reply" -> 4
      [] op = "reply_wgas" -> 5
      [] op = "reply_commit_wgas" -> 3
      [] op = "create_program" -> 7
      [] op = "create_program_wgas" -> 8

\* Positions of the payload pointer and length, and the reads a handler
\* makes before it reads the payload: <<position, size>> of each.
PayloadIndex(op) ==
    CASE op \in {"send", "send_wgas", "send_push"} -> 2
      [] op \in {"reply", "reply_wgas", "reply_push"} -> 1
      [] op \in {"create_program", "create_program_wgas"} -> 4

ReadsBeforePayload(op) ==
    CASE op \in {"send", "send_wgas"} -> {<<1, IdLen>>}
      [] op \in {"create_program", "create_program_wgas"} ->
            {<<1, IdLen>>, <<2, last.args[3].val>>}
      [] OTHER -> {}

\* The stack values each outgoing-message handler pops, in order.
Signature(op) ==
    CASE op = "send" -> <<"i32", "i32", "i32", "i32", "i32", "i32">>
      [] op = "send_wgas" -> <<"i32", "i32", "i32", "i64", "i32", "i32", "i32">>
      [] op = "send_commit" -> <<"i32", "i32", "i32", "i32", "i32">>
      [] op = "send_commit_wgas" -> <<"i32", "i32", "i32", "i64", "i32", "i32">>
      [] op = "send_init" -> <<"i32">>
      [] op = "send_push" -> <<"i32", "i32", "i32">>
      [] op = "reply" -> <<"i32", "i32", "i32", "i32", "i32">>
      [] op = "reply_wgas" -> <<"i32", "i32", "i64", "i32", "i32", "i32">>
      [] op = "reply_commit" -> <<"i32", "i32", "i32">>
      [] op = "reply_commit_wgas" -> <<"i64", "i32", "i32", "i32">>
      [] op = "reply_push" -> <<"i32", "i32">>
      [] op = "create_program" ->
            <<"i32", "i32", "i32", "i32", "i32", "i32", "i32", "i32">>
      [] op = "create_program_wgas" ->
            <<"i32", "i32", "i32", "i32", "i32", "i64", "i32", "i32", "i32">>

\* Every argument of the last outgoing-message handler decoded.
ArgsDecoded ==
    \A i \in DOMAIN Signature(last.op) :
        IF Signature(last.op)[i] = "i64"
        THEN pop_i64(last.args, i, "u64").ok
        ELSE pop_i32(last.args, i, "u32").ok

\* The id or handle the extension produced in the last call.
ProducedBytes ==
    IF last.op = "send_init"
    THEN LeBytes(Len(ctx.ext.handles) - 1, U32Len)
    ELSE ctx.ext.outgoing[Len(ctx.ext.outgoing)].id

OutPtr == last.args[OutIndex(last.op)].val

\* The arguments of `read`, when they decode.
ReadDecoded ==
    /\ last.op = "read"
    /\ pop_i32(last.args, 1, "usize").ok
    /\ pop_i32(last.args, 2, "usize").ok
    /\ pop_i32(last.args, 3, "u32").ok
ReadAt == last.args[1].val
ReadLen == last.args[2].val
ReadDest == last.args[3].val
MsgLen == Len(last.pre.ext.payload)

\* C1 as stated: `read` succeeds iff at + len does not overflow and stays
\* within the payload; otherwise it traps with ReadLenOverflow or
\* ReadWrongRange and leaves guest memory as it was.
C1_ReadSucceedsIffRange ==
    ReadDecoded =>
        IF ReadAt + ReadLen <= MsgLen
        THEN last.ret = Unit
        ELSE /\ Trapped
             /\ ctx.err.tag \in {"ReadLenOverflow", "ReadWrongRange"}
             /\ MemUnchanged

\* C1 amended: `read` succeeds iff the extension hands out the message, the
\* range at..at+len lies within the payload and the len bytes at dest lie
\* within guest memory; it then leaves exactly those payload bytes at dest.
\* A range past the payload's end traps with ReadWrongRange (or
\* ReadLenOverflow), an extension failure with Core, a dest out of bounds
\* with a memory error; every failure leaves guest memory unchanged.
C1_ReadSucceedsIffRangeAndDest ==
    ReadDecoded =>
        LET rangeOk == ReadAt + ReadLen <= MsgLen
            destOk == InBounds(ReadDest, ReadLen)
        IN  /\ last.ret = Unit <=> (ExtResult = "Ok" /\ rangeOk /\ destOk)
            /\ last.ret # Unit => Trapped /\ MemUnchanged
            /\ last.ret = Unit =>
                  /\ Slice(ctx.mem, ReadDest, ReadLen)
                        = SubSeq(last.pre.ext.payload, ReadAt + 1, ReadAt + ReadLen)
                  /\ SameOutside(ctx.mem, last.pre.mem, ReadDest, ReadLen)
                  /\ ErrUnchanged
            /\ (ExtResult = "Ok" /\ ~rangeOk) =>
                  ctx.err.tag \in {"ReadLenOverflow", "ReadWrongRange"}
            /\ ExtResult # "Ok" => ctx.err = Core(ExtResult)
            /\ (ExtResult = "Ok" /\ rangeOk /\ ~destOk) => ctx.err = MemoryErr

\* A `read` of two payload bytes that ends at the payload's end succeeded.
C1_Witness ==
    /\ ReadDecoded /\ last.ret = Unit
    /\ ReadLen = 2 /\ ReadAt + ReadLen = MsgLen

\* C2: a range failure of `read` names the request: ReadWrongRange carries
\* at..at+len and the payload length, ReadLenOverflow carries (at, len), and
\* ReadWrongRange is recorded only when at + len did not overflow.
C2_ReadErrorNamesRequest ==
    (ReadDecoded /\ Trapped) =>
        /\ ctx.err.tag = "ReadWrongRange" =>
              /\ ctx.err.data = <<ReadAt, ReadAt + ReadLen, MsgLen>>
              /\ ReadAt + ReadLen > MsgLen
              /\ \A bits \in UsizeWidths : checked_add(ReadAt, ReadLen, bits).ok
        /\ ctx.err.tag = "ReadLenOverflow" =>
              /\ ctx.err.data = <<ReadAt, ReadLen>>
              /\ \E bits \in UsizeWidths : ~checked_add(ReadAt, ReadLen, bits).ok
        /\ (ExtResult = "Ok" /\ ReadAt + ReadLen > MsgLen) =>
              ctx.err.tag \in {"ReadWrongRange", "ReadLenOverflow"}

\* read(at = 3, len = 10) on a 5-byte payload recorded ReadWrongRange(3..13, 5).
C2_Witness ==
    /\ ReadDecoded /\ Trapped
    /\ ReadAt = 3 /\ ReadLen = 10 /\ MsgLen = 5
    /\ ctx.err = ReadWrongRange(3, 13, 5)

\* C3 as stated: whenever the extension operation of an id-producing
\* outgoing-message handler succeeds, the handler returns status 0 and the
\* id is in guest memory at the output pointer.
C3_SuccessWritesId ==
    (last.op \in IdHandlers /\ ExtResult = "Ok") =>
        /\ last.ret = RetI32(0)
        /\ InBounds(OutPtr, Len(ProducedBytes))
        /\ Slice(ctx.mem, OutPtr, Len(ProducedBytes)) = ProducedBytes

\* C3 amended: when the extension operation succeeds and the id fits in guest
\* memory at the output pointer, the handler returns status 0 and memory
\* there holds exactly the id (or handle) produced, the rest of memory and
\* the trap context being untouched; when the id does not fit, the handler
\* traps with the memory error recorded and memory unchanged.
C3_SuccessWritesIdInBounds ==
    (last.op \in IdHandlers /\ ExtResult = "Ok") =>
        IF InBounds(OutPtr, Len(ProducedBytes))
        THEN /\ last.ret = RetI32(0)
             /\ Slice(ctx.mem, OutPtr, Len(ProducedBytes)) = ProducedBytes
             /\ SameOutside(ctx.mem, last.pre.mem, OutPtr, Len(ProducedBytes))
             /\ ErrUnchanged
        ELSE /\ Trapped
             /\ ctx.err = MemoryErr
             /\ MemUnchanged

\* A second handle was opened by send_init and written to guest memory.
C3_Witness ==
    /\ last.op = "send_init" /\ ExtResult = "Ok" /\ last.ret = RetI32(0)
    /\ Len(ctx.ext.handles) = 2
    /\ Slice(ctx.mem, OutPtr, U32Len) = LeBytes(1, U32Len)

\* C4: a domain failure of the extension operation makes an
\* outgoing-message handler return a status > 0 that is the byte length of
\* the description the extension recorded, with guest memory unchanged.
C4_DomainFailureStatus ==
    (last.op \in OutgoingHandlers /\ ExtResult \in DomainErrors) =>
        /\ last.ret.sig = "I32"
        /\ last.ret.val > 0
        /\ ctx.ext.lastError = ExtResult
        /\ last.ret.val = Len(encode(ctx.ext.lastError))
        /\ MemUnchanged

\* `send` was refused for lack of value.
C4_Witness ==
    /\ last.op = "send" /\ ExtResult = "NotEnoughValue"
    /\ last.ret = RetI32(2)

\* The argument of `error` decodes and the n bytes at it are in bounds.
ErrorPtrFits(args, n) == pop_i32(args, 1, "u32").ok /\ InBounds(args[1].val, n)

\* C5: after an outgoing-message handler returned a status n > 0, an `error`
\* call that comes next with a pointer at which n bytes are in bounds
\* succeeds and leaves at the pointer exactly the description of that
\* failure, n bytes long.
C5_ErrorReturnsDescription ==
    [][(/\ last.op \in OutgoingHandlers
        /\ last.ret.sig = "I32" /\ last.ret.val > 0
        /\ last'.op = "error"
        /\ ErrorPtrFits(last'.args, last.ret.val))
       => (/\ last'.ret = Unit
           /\ Len(encode(ExtResult)) = last.ret.val
           /\ Slice(ctx'.mem, last'.args[1].val, last.ret.val) = encode(ExtResult)
           /\ SameOutside(ctx'.mem, ctx.mem, last'.args[1].val, last.ret.val)
           /\ ctx'.err = ctx.err)]_vars

\* `error` succeeded right after send_push was refused for a handle that
\* was never opened.
C5_Witness ==
    /\ last.op = "error" /\ last.ret = Unit
    /\ last.pre.ext.invoked = <<[op |-> "send_push", res |-> "OutOfBounds"]>>
    /\ Slice(ctx.mem, last.args[1].val, 2) = encode("OutOfBounds")

\* C6 as stated, for the calls a guest can make (one i32 argument): with no
\* failure on the extension's record, every `error` call traps with
\* SyscallErrorExpected recorded and writes nothing.
C6_ErrorExpected ==
    (/\ last.op = "error" /\ last.pre.ext.lastError = ""
     /\ Len(last.args) = 1 /\ last.args[1].tag = "I32") =>
        /\ Trapped
        /\ ctx.err = SyscallErrorExpected
        /\ MemUnchanged

\* C6 amended: with no failure on the extension's record, every `error`
\* call traps and writes nothing; it records SyscallErrorExpected when its
\* argument decodes, and leaves the trap context as it was when it does not.
C6_ErrorExpectedWhenDecoded ==
    (last.op = "error" /\ last.pre.ext.lastError = "") =>
        /\ Trapped
        /\ MemUnchanged
        /\ ctx.err = IF pop_i32(last.args, 1, "u32").ok
                     THEN SyscallErrorExpected
                     ELSE last.pre.err

\* `error` came after a successful send_init and found nothing on record.
C6_Witness ==
    /\ last.op = "error" /\ last.pre.ext.lastError = ""
    /\ last.pre.ext.handles # <<>>
    /\ ctx.err = SyscallErrorExpected

\* C7 as stated: whenever the extension operation of an outgoing-message
\* handler is invoked and returns an error, the handler returns a status
\* and leaves the trap context alone.
C7_NoTrapOnExtError ==
    (last.op \in OutgoingHandlers /\ ExtResult \notin {"none", "Ok"}) =>
        /\ last.ret.sig = "I32"
        /\ ErrUnchanged

\* C7 amended: whenever the extension operation returns an error that
\* converts into an ExtError (a domain failure), the handler returns a
\* status and leaves the trap context alone; an error that does not convert
\* is raised as a trap with Core(error) recorded.
C7_NoTrapOnDomainError ==
    (last.op \in OutgoingHandlers /\ ExtResult \notin {"none", "Ok"}) =>
        IF into_ext_error(ExtResult).ok
        THEN last.ret.sig = "I32" /\ last.ret.val # 0 /\ ErrUnchanged
        ELSE Trapped /\ ctx.err = Core(ExtResult)

\* send_push on a handle that was never opened returned a status.
C7_Witness ==
    /\ last.op = "send_push" /\ ExtResult = "OutOfBounds"
    /\ last.ret.sig = "I32" /\ ErrUnchanged

\* The last handler read its payload bytes from guest memory, every read
\* before that one having succeeded.
PayloadWasRead ==
    /\ ArgsDecoded
    /\ \A r \in ReadsBeforePayload(last.op) : InBounds(last.args[r[1]].val, r[2])
    /\ InBounds(last.args[PayloadIndex(last.op)].val, last.args[PayloadIndex(last.op) + 1].val)

PayloadLen == last.args[PayloadIndex(last.op) + 1].val

\* C8 as stated: a payload longer than the maximum is reported by every
\* outgoing-message handler that takes one as a positive status.
C8_OversizeIsStatus ==
    (/\ last.op \in SizedPayloadHandlers \cup PushHandlers
     /\ PayloadWasRead /\ PayloadLen > MaxPayload)
    => (last.ret.sig = "I32" /\ last.ret.val > 0)

\* C8 amended: send, send_wgas, reply, reply_wgas, create_program and
\* create_program_wgas trap with PayloadSize recorded, the extension not
\* invoked, when the payload read from guest memory is longer than the
\* maximum; send_push and reply_push hand the bytes to the extension and
\* never record PayloadSize: they return a positive status when the
\* extension refuses the bytes as a domain failure.
C8_OversizeTrapsOrStatus ==
    (/\ last.op \in SizedPayloadHandlers \cup PushHandlers
     /\ PayloadWasRead /\ PayloadLen > MaxPayload)
    => IF last.op \in SizedPayloadHandlers
       THEN /\ Trapped
            /\ ctx.err = PayloadSize
            /\ ctx.ext.invoked = <<>>
       ELSE /\ ctx.ext.invoked # <<>>
            /\ ctx.err # PayloadSize
            /\ ExtResult \in DomainErrors => (last.ret.sig = "I32" /\ last.ret.val > 0)
            /\ ExtResult \notin DomainErrors => Trapped

\* send_push handed an oversized payload to the extension for an open
\* handle and returned the length of its refusal.
C8_Witness ==
    /\ last.op = "send_push" /\ PayloadWasRead /\ PayloadLen > MaxPayload
    /\ ExtResult = "MaxMessageSizeExceed"
    /\ last.ret = RetI32(3)

\* C9 as stated: an outgoing-message handler that returns the trap signal
\* has not performed its extension operation.
C9_TrapBeforeDispatch ==
    (last.op \in OutgoingHandlers /\ Trapped) => NothingPerformed

\* C9 amended: an outgoing-message handler returns the trap signal through
\* a decoding, memory-read or payload-size failure before the extension is
\* invoked, through an extension error that is no domain failure (nothing
\* performed), or through the failure to write the produced id at the
\* output pointer after the extension operation succeeded; only in the last
\* case has the operation been performed.
C9_TrapBeforeDispatchOrAtWrite ==
    (last.op \in OutgoingHandlers /\ Trapped) =>
        \/ /\ ctx.ext.invoked = <<>>
           /\ NothingPerformed
           /\ ctx.err \in (IF ArgsDecoded THEN {MemoryErr, PayloadSize} ELSE {last.pre.err})
        \/ /\ ExtResult \notin {"none", "Ok"}
           /\ ~into_ext_error(ExtResult).ok
           /\ NothingPerformed
           /\ ctx.err = Core(ExtResult)
        \/ /\ ExtResult = "Ok"
           /\ last.op \in IdHandlers
           /\ ~InBounds(OutPtr, Len(ProducedBytes))
           /\ ~NothingPerformed
           /\ ctx.err = MemoryErr

\* `reply_commit` trapped on its delay pointer and committed nothing.
C9_Witness ==
    /\ last.op = "reply_commit" /\ Trapped
    /\ pop_i32(last.args, 3, "u32").ok /\ ~InBounds(last.args[3].val, U32Len)
    /\ InBounds(last.args[1].val, U128Len)
    /\ ctx.err = MemoryErr /\ NothingPerformed

NeverReturning == {"exit", "leave", "wait", "wait_for", "wait_up_to", "forbidden"}

\* C10: exit, leave, wait, wait_for, wait_up_to and forbidden return the
\* trap signal whatever their arguments, guest memory and the extension's
\* answer.
C10_NeverReturn ==
    last.op \in NeverReturning => last.ret = HostError

\* `leave` trapped although its hook succeeded.
C10_Witness ==
    /\ last.op = "leave" /\ ExtResult = "Ok" /\ Trapped
    /\ ctx.err = Terminated("Leave", <<>>)

(* C11 .. C14: the handlers that end the guest call *)

\* The beneficiary id of `exit` was read.
ExitRead ==
    /\ last.op = "exit"
    /\ pop_i32(last.args, 1, "u32").ok
    /\ InBounds(last.args[1].val, IdLen)
Beneficiary == Slice(last.pre.mem, last.args[1].val, IdLen)

C12_LeaveWaitReason ==
    last.op \in {"leave", "wait"} =>
        /\ Trapped
        /\ Len(ctx.ext.invoked) = 1 /\ ctx.ext.invoked[1].op = last.op
        /\ (ExtResult = "Ok") <=>
               (ctx.err = Terminated(IF last.op = "leave" THEN "Leave" ELSE "WaitNone", <<>>))
        /\ (ExtResult # "Ok") => (ctx.err = Core(ExtResult))
        /\ (ExtResult # "Ok") => (ctx.err.tag # "Terminated")

\* `wait` recorded its hook's error and no Terminated reason.
C12_Witness ==
    /\ last.op = "wait" /\ ExtResult = "GasLimitExceeded"
    /\ ctx.err = Core("GasLimitExceeded")

WaitDecoded ==
    /\ last.op \in {"wait_for", "wait_up_to"}
    /\ pop_i32(last.args, 1, "u32").ok
WaitPtr == last.args[1].val

\* C13: `wait_for` and `wait_up_to` record Terminated(Wait(Some(d))), d
\* being the 32-bit little-endian value in guest memory at the pointer, and
\* only when the read and the extension hook both succeed; an unreadable
\* duration gives the memory error and the hook is not invoked.
C13_WaitDuration ==
    WaitDecoded =>
        /\ Trapped
        /\ IF InBounds(WaitPtr, U32Len)
           THEN /\ Len(ctx.ext.invoked) = 1 /\ ctx.ext.invoked[1].op = last.op
                /\ IF ExtResult = "Ok"
                   THEN ctx.err = Terminated("WaitSome",
                                     <<LeValue(Slice(last.pre.mem, WaitPtr, U32Len))>>)
                   ELSE ctx.err = Core(ExtResult)
           ELSE ctx.ext.invoked = <<>> /\ ctx.err = MemoryErr

\* `wait_up_to` recorded the duration stored at its pointer, 8: the bytes
\* 4, 5, 1, 2.
C13_Witness ==
    /\ WaitDecoded /\ last.op = "wait_up_to" /\ WaitPtr = 8
    /\ ctx.err = Terminated("WaitSome", <<4 + 256 * 5 + 65536 * 1 + 16777216 * 2>>)

\* C14: `forbidden` traps and records the extension's forbidden-function
\* error for every argument list and extension state; no extension operation
\* is invoked, the extension and guest memory stay as they were.
C14_Forbidden ==
    last.op = "forbidden" =>
        /\ Trapped
        /\ ctx.err = Core(forbidden_function)
        /\ ctx.ext = [last.pre.ext EXCEPT !.invoked = <<>>]
        /\ MemUnchanged

\* `forbidden`, called with an argument after another syscall left a failure
\* on the extension's record.
C14_Witness ==
    /\ last.op = "forbidden" /\ last.args # <<>> /\ calls = 2
    /\ last.pre.ext.lastError # ""
    /\ ctx.err = Core(forbidden_function)

(* C15, C16: the accessors of the reply context *)

\* C15 as stated: `exit_code`, the message handled being no reply, traps with
\* NonReplyExitCode recorded, whatever else happens.
C15_NonReplyExitCode ==
    (last.op = "exit_code" /\ last.pre.ext.exitCode = <<>>) =>
        (Trapped /\ ctx.err = NonReplyExitCode)

\* C15 amended: `exit_code`, the message handled being no reply, never
\* returns a value: it traps with NonReplyExitCode recorded when the
\* extension's exit_code accessor answers (with no exit code), and with the
\* accessor's error recorded as a Core error when the accessor fails.
C15_NonReplyExitCodeOrCore ==
    (last.op = "exit_code" /\ last.pre.ext.exitCode = <<>>) =>
        /\ Trapped
        /\ IF ExtResult = "Ok" THEN ctx.err = NonReplyExitCode
           ELSE ctx.err = Core(ExtResult)

\* `exit_code` outside a reply context, the accessor having answered.
C15_Witness ==
    /\ last.op = "exit_code" /\ last.pre.ext.exitCode = <<>>
    /\ ExtResult = "Ok" /\ Trapped /\ ctx.err = NonReplyExitCode

\* `reply_to` decoded its pointer and the extension answered.
ReplyToAnswered ==
    /\ last.op = "reply_to"
    /\ pop_i32(last.args, 1, "u32").ok
    /\ ExtResult = "Ok"
RepliedTo == last.pre.ext.replyTo

\* C16 as stated: the extension reporting no replied-to id, `reply_to` traps
\* with NoReplyContext and writes nothing; the extension reporting an id,
\* `reply_to` writes it at the pointer and returns unit.
C16_ReplyTo ==
    ReplyToAnswered =>
        IF RepliedTo = <<>>
        THEN Trapped /\ ctx.err = NoReplyContext /\ MemUnchanged
        ELSE /\ last.ret = Unit
             /\ InBounds(last.args[1].val, IdLen)
             /\ Slice(ctx.mem, last.args[1].val, IdLen) = RepliedTo[1]

\* C16 amended: the extension reporting no replied-to id, `reply_to` traps
\* with NoReplyContext and writes nothing; the extension reporting an id,
\* `reply_to` writes it at the pointer and returns unit, the trap context
\* staying as it was, when the id fits in guest memory there, and traps with
\* the memory error recorded and guest memory unchanged when it does not.
C16_ReplyToInBounds ==
    ReplyToAnswered =>
        IF RepliedTo = <<>>
        THEN Trapped /\ ctx.err = NoReplyContext /\ MemUnchanged
        ELSE IF InBounds(last.args[1].val, IdLen)
             THEN /\ last.ret = Unit /\ ErrUnchanged
                  /\ Slice(ctx.mem, last.args[1].val, IdLen) = RepliedTo[1]
                  /\ SameOutside(ctx.mem, last.pre.mem, last.args[1].val, IdLen)
             ELSE Trapped /\ ctx.err = MemoryErr /\ MemUnchanged

\* `reply_to` wrote the id of the message replied to.
C16_Witness ==
    /\ ReplyToAnswered /\ RepliedTo = <<MsgId(7)>> /\ last.ret = Unit
    /\ Slice(ctx.mem, last.args[1].val, IdLen) = MsgId(7)
    /\ ctx.mem # last.pre.mem

(* C17 .. C19: when the trap context is written *)

\* C17: a handler that returns a value leaves the trap context alone, so
\* the trap context holds its initial value until a handler returns the trap
\* signal.
C17_ErrOnlyOnTrap ==
    (last.op # "none" /\ ~Trapped) => (ErrUnchanged /\ ctx.err = ErrUnset)

\* Two handlers returned, the second with a failure status, and the trap
\* context is still unset.
C17_Witness ==
    /\ calls = 2 /\ last.op = "send" /\ last.ret.sig = "I32" /\ last.ret.val > 0
    /\ ctx.err = ErrUnset

OnePointer ==
    {"exit", "wait_for", "wait_up_to", "error", "gas", "alloc", "free", "origin",
     "reply_to", "msg_id", "program_id", "source", "value", "value_available", "send_init"}
NoArgument ==
    {"size", "exit_code", "block_height", "block_timestamp", "gas_available", "leave",
     "wait", "forbidden"}

\* Every argument of the last handler decoded.
AllDecoded ==
    CASE last.op \in NoArgument -> TRUE
      [] last.op \in OnePointer -> pop_i32(last.args, 1, "u32").ok
      [] last.op \in {"debug", "wake"} ->
            pop_i32(last.args, 1, "u32").ok /\ pop_i32(last.args, 2, "u32").ok
      [] last.op = "read" -> ReadDecoded
      [] last.op \in OutgoingHandlers -> ArgsDecoded
      [] OTHER -> FALSE

\* C18 as stated: a handler other than gas_available that traps, its
\* arguments decoded, has stored an error in the trap context during the call.
C18_TrapStoresError ==
    (Trapped /\ AllDecoded /\ last.op # "gas_available") =>
        (ctx.err # ErrUnset /\ ctx.err # last.pre.err)

\* The value to return does not fit the stack value: return_i32 or
\* return_i64 failed.
ReturnFailed ==
    /\ last.op \in {"size", "block_height", "block_timestamp"}
    /\ ExtResult = "Ok" /\ Trapped

\* `gas` trapped on a charge error that is no GasAllowanceExceeded.
GasChargeFailed ==
    /\ last.op = "gas" /\ Trapped
    /\ ExtResult \notin {"none", "Ok", "GasAllowanceExceeded"}

\* C18 amended: a handler other than gas_available that traps, its arguments
\* decoded, has stored the error of that failure in the trap context during
\* the call (an error of the extension as a Core error, or for gas as
\* Terminated(GasAllowanceExceeded)), except that `gas` stores nothing for a
\* charge error that is no GasAllowanceExceeded, and size, block_height and
\* block_timestamp store nothing when the value does not fit the return type.
C18_TrapStoresErrorExcept ==
    (Trapped /\ AllDecoded /\ last.op # "gas_available") =>
        IF ReturnFailed \/ GasChargeFailed THEN ErrUnchanged
        ELSE /\ ctx.err # ErrUnset /\ ctx.err # last.pre.err
             /\ ExtResult \notin {"none", "Ok"} =>
                    IF last.op = "gas" THEN ctx.err = Terminated("GasAllowanceExceeded", <<>>)
                    ELSE ctx.err = Core(ExtResult)
             /\ ExtResult = "none" => ctx.err.tag # "Terminated"

\* `debug` trapped on bytes that are no UTF-8 and recorded them.
C18_Witness ==
    /\ last.op = "debug" /\ Trapped /\ AllDecoded
    /\ ctx.err = DebugString(<<255>>)

\* C19: the extension's gas_available accessor failing, `gas_available`
\* returns the trap signal and the trap context is as before the call.
C19_GasAvailableSilent ==
    (last.op = "gas_available" /\ ExtResult \notin {"none", "Ok"}) =>
        (Trapped /\ ErrUnchanged /\ MemUnchanged)

\* `gas_available` trapped on its accessor's error with nothing recorded.
C19_Witness ==
    /\ last.op = "gas_available" /\ ExtResult = "GasLimitExceeded"
    /\ Trapped /\ ctx.err = ErrUnset

(* C20: what the host makes of the trap context *)

ControlReasons == {"Exit", "Leave", "WaitNone", "WaitSome", "GasAllowanceExceeded"}

\* C20: the host's termination reason is the recorded reason when the trap
\* context holds Terminated(reason), and Trap(Other(description)) for every
\* other error; so the host sees Exit, Leave, Wait or GasAllowanceExceeded
\* only if the handler that trapped recorded a Terminated error.
C20_TerminationReason ==
    termination # NoTermination =>
        /\ IF ctx.err.tag = "Terminated"
           THEN /\ termination.reason = ctx.err.core
                /\ termination.reason \in ControlReasons
                /\ termination.data = ctx.err.data
           ELSE /\ termination.reason = "Trap"
                /\ termination.data = to_string(ctx.err)
        /\ termination.reason \in ControlReasons =>
               /\ ctx.err.tag = "Terminated"
               /\ last.op \in {"exit", "leave", "wait", "wait_for", "wait_up_to", "gas"}

\* The host made Wait(Some(d)) of what `wait_for` recorded.
C20_Witness ==
    /\ termination.reason = "WaitSome" /\ last.op = "wait_for"
    /\ termination.data = ctx.err.data /\ Len(termination.data) = 1

(* ---- building a message in parts (PartsSpec) --------------------------- *)

\* The last syscall was a send_commit that returned status 0 on a handle the
\* guest got from send_init.
Committed ==
    /\ last.op = "send_commit"
    /\ last.ret = RetI32(0)
    /\ last.args[1].val \in DOMAIN pushed

\* C21 A send_commit(h, dest, value, delay) that returns status 0 on a handle
\* h obtained from send_init dispatches exactly one message: the extension's
\* outgoing messages are those before the call followed by one message, to
\* the destination at the dest pointer, whose payload is the concatenation,
\* in push order, of the payloads of the send_push(h, ..) calls that returned
\* status 0 (none pushed: the empty payload); no handle is committed twice,
\* and every dispatched message is one commit's.
C21_CommitSendsPushed ==
    /\ Committed =>
          LET sent == ctx.ext.outgoing
              before == last.pre.ext.outgoing
          IN  /\ Len(sent) = Len(before) + 1
              /\ SubSeq(sent, 1, Len(before)) = before
              /\ sent[Len(sent)].kind = "handle"
              /\ sent[Len(sent)].packet.dest = Slice(last.pre.mem, last.args[3].val, IdLen)
              /\ sent[Len(sent)].packet.payload = pushed[last.args[1].val].bytes
    /\ \A h \in DOMAIN pushed : pushed[h].commits <= 1
    /\ Cardinality({h \in DOMAIN pushed : pushed[h].commits = 1}) = Len(ctx.ext.outgoing)

\* Two pushes (one byte from address 4, then two bytes from address 0) and a
\* commit: the message carries the three bytes in push order.
C21_Witness ==
    /\ Committed
    /\ pushed[last.args[1].val].bytes = <<mem0[4], mem0[0], mem0[1]>>
    /\ ctx.ext.outgoing[Len(ctx.ext.outgoing)].packet.payload = <<5, 1, 2>>

(* ---- send: what the extension records ---------------------------------- *)

\* The message the last call made the extension record.
NewMessage == ctx.ext.outgoing[Len(ctx.ext.outgoing)]

\* The extension's outgoing messages are those before the last call and one more.
OneMoreMessage ==
    /\ Len(ctx.ext.outgoing) = Len(last.pre.ext.outgoing) + 1
    /\ SubSeq(ctx.ext.outgoing, 1, Len(last.pre.ext.outgoing)) = last.pre.ext.outgoing

\* The one new message is a message to the destination at args[1], with the
\* payload bytes at [args[2], args[2] + args[3]), the value at args[4] and
\* the delay at args[6], all as guest memory held them before the call.
SendRecorded ==
    /\ OneMoreMessage
    /\ NewMessage.kind = "handle"
    /\ NewMessage.packet.dest = Slice(last.pre.mem, last.args[1].val, IdLen)
    /\ NewMessage.packet.payload = Slice(last.pre.mem, last.args[2].val, last.args[3].val)
    /\ NewMessage.packet.value = Slice(last.pre.mem, last.args[4].val, U128Len)
    /\ NewMessage.delay = LeValue(Slice(last.pre.mem, last.args[6].val, U32Len))

\* C22 as stated: a `send` whose reads and extension operation succeed
\* records exactly one new message with the destination, payload, value and
\* delay read from guest memory, returns status 0 and writes the message's
\* id at the output pointer.
C22_SendRecordsOne ==
    (last.op = "send" /\ ExtResult = "Ok") =>
        /\ SendRecorded
        /\ last.ret = RetI32(0)
        /\ InBounds(last.args[5].val, IdLen)
        /\ Slice(ctx.mem, last.args[5].val, IdLen) = NewMessage.id

\* C22 amended: such a `send` records exactly one new message with the
\* destination, payload, value and delay read from guest memory; when the id
\* fits in guest memory at the output pointer it returns status 0 with the
\* id written there, and otherwise it traps with the memory error recorded,
\* guest memory unchanged and the message still recorded.
C22_SendRecordsOneIdInBounds ==
    (last.op = "send" /\ ExtResult = "Ok") =>
        /\ SendRecorded
        /\ IF InBounds(last.args[5].val, IdLen)
           THEN /\ last.ret = RetI32(0)
                /\ Slice(ctx.mem, last.args[5].val, IdLen) = NewMessage.id
                /\ SameOutside(ctx.mem, last.pre.mem, last.args[5].val, IdLen)
           ELSE /\ Trapped
                /\ ctx.err = MemoryErr
                /\ MemUnchanged

\* A two-byte payload was sent to the program whose id is at address 0, and
\* the message id is at address 8.
C22_Witness ==
    /\ last.op = "send" /\ ExtResult = "Ok" /\ last.ret = RetI32(0)
    /\ last.pre.mem = mem0
    /\ NewMessage.packet.payload = <<5, 1>>
    /\ NewMessage.packet.dest = Slice(mem0, 0, IdLen)
    /\ Slice(ctx.mem, 8, IdLen) = NewMessage.id

(* ---- argument decoding -------------------------------------------------- *)

\* The stack values a handler pops, in order ("i32" or "i64"); every one is
\* requested as an unsigned type (u32, usize or u64).
ArgKinds(op) ==
    CASE op \in OutgoingHandlers -> Signature(op)
      [] op \in OnePointer -> <<"i32">>
      [] op \in {"debug", "wake"} -> <<"i32", "i32">>
      [] op = "read" -> <<"i32", "i32", "i32">>
      [] OTHER -> <<>>

\* Some argument of the last call is missing, has the other width's tag, or
\* is negative.
DecodeFails ==
    LET kinds == ArgKinds(last.op)
    IN  \E i \in DOMAIN kinds :
            \/ i > Len(last.args)
            \/ last.args[i].tag # (IF kinds[i] = "i64" THEN "I64" ELSE "I32")
            \/ last.args[i].val < 0

\* The last call trapped and left the whole Runtime (guest memory, trap
\* context, extension) as it found it, no extension operation invoked.
BareTrap == Trapped /\ ctx = [last.pre EXCEPT !.ext.invoked = <<>>]

\* C23 A handler's decoding fails exactly when an argument is missing, has
\* the wrong width's tag or does not fit the unsigned type requested: in
\* that case the handler returns the trap signal with the trap context and
\* guest memory unchanged and no extension operation invoked, and in no
\* other case does a handler trap without having invoked the extension or
\* recorded an error.
C23_DecodeFailure ==
    last.op # "none" => (DecodeFails <=> BareTrap)

\* send_wgas was given a negative gas limit, its other arguments being
\* well-formed, after an earlier call had changed the Runtime.
C23_Witness ==
    /\ DecodeFails /\ BareTrap
    /\ last.op = "send_wgas" /\ last.args[4] = I64(-1)
    /\ \A i \in {1, 2, 3, 5, 6, 7} : pop_i32(last.args, i, "u32").ok
    /\ last.pre.mem # mem0

(* ---- wake --------------------------------------------------------------- *)

WakeDecoded ==
    last.op = "wake" /\ pop_i32(last.args, 1, "u32").ok /\ pop_i32(last.args, 2, "u32").ok

\* The message id and the delay `wake` was pointed at lie within guest memory.
WakeReadable ==
    /\ WakeDecoded
    /\ InBounds(last.args[1].val, IdLen)
    /\ InBounds(last.args[2].val, U32Len)

\* What `wake` does once it was called: unit and an untouched trap context
\* when the id and delay are readable and the extension's wake succeeds, the
\* message id and delay read being those the extension was asked to wake;
\* otherwise a trap with the memory error or the extension's error recorded.
WakeOutcome ==
    IF WakeReadable /\ ExtResult = "Ok"
    THEN /\ last.ret = Unit
         /\ ErrUnchanged
         /\ MemUnchanged
         /\ ctx.ext.woken = Append(last.pre.ext.woken,
                [id |-> Slice(last.pre.mem, last.args[1].val, IdLen),
                 delay |-> LeValue(Slice(last.pre.mem, last.args[2].val, U32Len))])
    ELSE /\ Trapped
         /\ ctx.err = (IF WakeReadable THEN Core(ExtResult) ELSE MemoryErr)
         /\ ctx.ext.woken = last.pre.ext.woken

\* C24 as stated: `wake` returns unit with the trap context unchanged when
\* the id and delay are readable and the extension's wake succeeds, in every
\* other case traps with the memory or Core error recorded, and never
\* records a Terminated reason.
C24_WakeReturnsOrRecords ==
    last.op = "wake" => WakeOutcome /\ ctx.err.tag # "Terminated"

\* C24 amended: the same for every `wake` whose two arguments decode; a
\* `wake` whose arguments do not decode traps with the trap context
\* unchanged. Neither records a Terminated reason.
C24_WakeDecodedReturnsOrRecords ==
    last.op = "wake" =>
        /\ IF WakeDecoded THEN WakeOutcome ELSE BareTrap
        /\ ctx.err.tag # "Terminated"

\* `wake` rescheduled a message and returned; the guest went on.
C24_Witness ==
    /\ WakeReadable /\ ExtResult = "Ok" /\ last.ret = Unit
    /\ Len(ctx.ext.woken) = 1
    /\ calls < MaxCalls

(* ---- debug -------------------------------------------------------------- *)

DebugDecoded ==
    last.op = "debug" /\ pop_i32(last.args, 1, "u32").ok /\ pop_i32(last.args, 2, "u32").ok

\* The debug sink was not called: no extension operation was invoked and the
\* strings the sink received are those it had.
SinkNotCalled == ExtResult = "none" /\ ctx.ext.debugged = last.pre.ext.debugged

\* The last call trapped with error e recorded and without calling the sink.
DebugRefused(e) == Trapped /\ ctx.err = e /\ SinkNotCalled /\ MemUnchanged

\* C25 `debug`, its arguments decoded, checks in this order that the length
\* does not exceed the runtime buffer maximum, that [ptr, ptr + len) lies
\* within guest memory and that the bytes are valid UTF-8; the first check
\* violated makes it trap with RuntimeBufferSize, the memory error or
\* DebugString(bytes) respectively, the sink not called; when all three hold
\* the sink is called with exactly those bytes. A `debug` whose arguments do
\* not decode does not call the sink either.
C25_DebugChecks ==
    last.op = "debug" =>
        IF ~DebugDecoded THEN SinkNotCalled
        ELSE LET ptr == last.args[1].val
                 len == last.args[2].val
             IN  IF len > MaxBuffer THEN DebugRefused(RuntimeBufferSize)
                 ELSE IF ~InBounds(ptr, len) THEN DebugRefused(MemoryErr)
                 ELSE IF ~valid_utf8(Slice(last.pre.mem, ptr, len))
                 THEN DebugRefused(DebugString(Slice(last.pre.mem, ptr, len)))
                 ELSE /\ ExtResult # "none"
                      /\ ExtResult = "Ok" =>
                            /\ last.ret = Unit
                            /\ ctx.ext.debugged =
                                  Append(last.pre.ext.debugged, Slice(last.pre.mem, ptr, len))

\* `debug` was given a length over the buffer maximum, of bytes in guest
\* memory that are no UTF-8: it is the length that was reported.
C25_Witness ==
    /\ DebugDecoded
    /\ last.args[2].val > MaxBuffer
    /\ InBounds(last.args[1].val, last.args[2].val)
    /\ ~valid_utf8(Slice(last.pre.mem, last.args[1].val, last.args[2].val))
    /\ DebugRefused(RuntimeBufferSize)

(* ---- gas ---------------------------------------------------------------- *)

\* The last call was a `gas` that had the extension charge.
GasCharged == last.op = "gas" /\ ExtResult # "none"

\* C26 `gas` returns unit, the trap context unchanged and the amount
\* charged, when the extension's charge succeeds; when the charge fails it
\* traps, and the trap context holds Terminated(GasAllowanceExceeded) if and
\* only if the extension's error is the one that classifies as
\* GasAllowanceExceeded; for every other charge error the trap context is as
\* before the call.
C26_GasCharge ==
    GasCharged =>
        /\ MemUnchanged
        /\ IF ExtResult = "Ok"
           THEN /\ last.ret = Unit
                /\ ErrUnchanged
                /\ ctx.ext.gasAvailable = last.pre.ext.gasAvailable - last.args[1].val
           ELSE /\ Trapped
                /\ ctx.ext.gasAvailable = last.pre.ext.gasAvailable
                /\ ctx.err = Terminated("GasAllowanceExceeded", <<>>)
                      <=> ExtResult = "GasAllowanceExceeded"
                /\ ExtResult # "GasAllowanceExceeded" => ErrUnchanged

\* Two charges in one call: the first succeeded, the second exceeded the
\* block's gas allowance.
C26_Witness ==
    /\ GasCharged /\ ExtResult = "GasAllowanceExceeded"
    /\ ctx.err = Terminated("GasAllowanceExceeded", <<>>)
    /\ last.pre.ext.gasAvailable < ext0(0).gasAvailable

(* ---- inputs are read before the extension is invoked (OutgoingSpec) ----- *)

\* The guest-memory inputs an outgoing-message handler takes, in the order
\* it reads them: <<position of the pointer, bytes read, whether the bytes
\* are converted into a Payload of bounded length>>. a is the argument list.
Inputs(op, a) ==
    CASE op = "send" ->
            <<<<1, IdLen, FALSE>>, <<2, a[3].val, TRUE>>, <<4, U128Len, FALSE>>,
              <<6, U32Len, FALSE>>>>
      [] op = "send_wgas" ->
            <<<<1, IdLen, FALSE>>, <<2, a[3].val, TRUE>>, <<5, U128Len, FALSE>>,
              <<7, U32Len, FALSE>>>>
      [] op = "send_commit" ->
            <<<<3, IdLen, FALSE>>, <<4, U128Len, FALSE>>, <<5, U32Len, FALSE>>>>
      [] op = "send_commit_wgas" ->
            <<<<3, IdLen, FALSE>>, <<5, U128Len, FALSE>>, <<6, U32Len, FALSE>>>>
      [] op = "send_push" -> <<<<2, a[3].val, FALSE>>>>
      [] op = "reply" ->
            <<<<1, a[2].val, TRUE>>, <<3, U128Len, FALSE>>, <<5, U32Len, FALSE>>>>
      [] op = "reply_wgas" ->
            <<<<1, a[2].val, TRUE>>, <<4, U128Len, FALSE>>, <<6, U32Len, FALSE>>>>
      [] op = "reply_commit" -> <<<<1, U128Len, FALSE>>, <<3, U32Len, FALSE>>>>
      [] op = "reply_commit_wgas" -> <<<<2, U128Len, FALSE>>, <<4, U32Len, FALSE>>>>
      [] op = "reply_push" -> <<<<1, a[2].val, FALSE>>>>
      [] op = "create_program" ->
            <<<<1, IdLen, FALSE>>, <<2, a[3].val, FALSE>>, <<4, a[5].val, TRUE>>,
              <<6, U128Len, FALSE>>, <<8, U32Len, FALSE>>>>
      [] op = "create_program_wgas" ->
            <<<<1, IdLen, FALSE>>, <<2, a[3].val, FALSE>>, <<4, a[5].val, TRUE>>,
              <<7, U128Len, FALSE>>, <<9, U32Len, FALSE>>>>
      [] OTHER -> <<>>

\* The error of input r of argument list a: the memory error when its range
\* is not within guest memory, PayloadSize when it is a payload longer than
\* the maximum, and <<>> when it is read and passes.
InputError(r, a) ==
    IF ~InBounds(a[r[1]].val, r[2]) THEN <<MemoryErr>>
    ELSE IF r[3] /\ r[2] > MaxPayload THEN <<PayloadSize>>
    ELSE <<>>

\* The inputs of the last call that fail, by their place in the reading order.
FailedInputs ==
    LET ins == Inputs(last.op, last.args)
    IN  {i \in DOMAIN ins : InputError(ins[i], last.args) # <<>>}

\* C27 In every outgoing-message handler whose arguments decode, when one of
\* the inputs it reads from guest memory is out of bounds, or the payload it
\* converts is longer than the maximum, the handler traps with the error of
\* the first such input in reading order recorded, the extension operation
\* is not invoked, the extension is as it was and guest memory is unchanged.
C27_InputsBeforeExtension ==
    (last.op \in OutgoingHandlers /\ ArgsDecoded /\ FailedInputs # {}) =>
        LET failed == FailedInputs
            first == CHOOSE i \in failed : \A j \in failed : i <= j
        IN  /\ Trapped
            /\ <<ctx.err>> = InputError(Inputs(last.op, last.args)[first], last.args)
            /\ ctx.ext = [last.pre.ext EXCEPT !.invoked = <<>>]
            /\ MemUnchanged

\* create_program was given a payload over the maximum and a value pointer
\* out of bounds: it is the payload that was reported, the extension not
\* invoked.
C27_Witness ==
    /\ last.op = "create_program" /\ ArgsDecoded
    /\ FailedInputs = {3, 4}
    /\ ctx.err = PayloadSize
    /\ ctx.ext.invoked = <<>>
    /\ last.pre.ext.outgoing # <<>>

(* ---- the _wgas handlers and their base handlers (OutgoingSpec) ---------- *)

WgasHandlers ==
    {"send_wgas", "send_commit_wgas", "reply_wgas", "reply_commit_wgas",
     "create_program_wgas"}

\* Position of the gas limit in a _wgas handler's arguments.
GasIndex(op) ==
    CASE op \in {"send_wgas", "send_commit_wgas"} -> 4
      [] op = "reply_wgas" -> 3
      [] op = "reply_commit_wgas" -> 1
      [] op = "create_program_wgas" -> 6

\* The argument list a without its i-th value.
Without(a, i) ==
    IF i > Len(a) THEN a ELSE SubSeq(a, 1, i - 1) \o SubSeq(a, i + 1, Len(a))

\* The base handler of _wgas handler op, run on Runtime c.
RunBase(op, c, a, oc) ==
    CASE op = "send_wgas" -> send(c, a, oc)
      [] op = "send_commit_wgas" -> send_commit(c, a, oc)
      [] op = "reply_wgas" -> reply(c, a, oc)
      [] op = "reply_commit_wgas" -> reply_commit(c, a, oc)
      [] op = "create_program_wgas" -> create_program(c, a, oc)

\* Output w of a _wgas handler and output b of a base handler run on the
\* same Runtime are alike: the same return, guest memory and trap context,
\* the same extension but for the gas limit of the packet of a message w
\* recorded and b did not have, which is `limit`.
AlikeButGas(w, b, limit) ==
    /\ w.out = b.out
    /\ w.ctx.mem = b.ctx.mem
    /\ w.ctx.err = b.ctx.err
    /\ Len(w.ctx.ext.outgoing) = Len(b.ctx.ext.outgoing)
    /\ [w.ctx.ext EXCEPT !.outgoing = <<>>] = [b.ctx.ext EXCEPT !.outgoing = <<>>]
    /\ \A i \in DOMAIN w.ctx.ext.outgoing :
          \/ w.ctx.ext.outgoing[i] = b.ctx.ext.outgoing[i]
          \/ /\ i = Len(w.ctx.ext.outgoing)
             /\ b.ctx.ext.outgoing[i].packet.gas = <<>>
             /\ w.ctx.ext.outgoing[i] = [b.ctx.ext.outgoing[i] EXCEPT !.packet.gas = <<limit>>]

\* The base handler, run on the last call's Runtime and arguments without
\* the gas limit, is like the last call but for the gas limit: it invokes
\* the same extension operation, is given the same result (both are in the
\* extension's log, which is compared) and leaves the same return, guest
\* memory, trap context and extension; a message the last call recorded
\* carries the limit. The extension's result plays no part in a run that
\* does not invoke the extension, so there one result stands for all.
LikeBase ==
    LET c == [last.pre EXCEPT !.ext.invoked = <<>>]
        limit == last.args[GasIndex(last.op)].val
        results == IF ExtResult = "none" THEN {"Ok"} ELSE ExtOutcomes
    IN  /\ \E oc \in results :
              AlikeButGas(Output(last.ret, ctx),
                          RunBase(last.op, c, Without(last.args, GasIndex(last.op)), oc),
                          limit)
        /\ Len(ctx.ext.outgoing) > Len(last.pre.ext.outgoing) =>
              ctx.ext.outgoing[Len(ctx.ext.outgoing)].packet.gas = <<limit>>

\* C28 as stated: each _wgas handler behaves like its base handler run on
\* the same arguments with the gas argument removed, except that the packet
\* passed to the extension carries the gas limit.
C28_WgasLikeBase == last.op \in WgasHandlers => LikeBase

\* C28 amended: so it does whenever the gas argument decodes (an i64 that is
\* not negative); when the gas argument does not decode, the _wgas handler
\* traps with the Runtime untouched, whatever the base handler would do.
C28_WgasLikeBaseWhenGasDecodes ==
    last.op \in WgasHandlers =>
        IF pop_i64(last.args, GasIndex(last.op), "u64").ok THEN LikeBase ELSE BareTrap

\* create_program_wgas created a program: the packet carries its gas limit.
C28_Witness ==
    /\ last.op = "create_program_wgas" /\ ExtResult = "Ok" /\ last.ret = RetI32(0)
    /\ ctx.ext.outgoing[Len(ctx.ext.outgoing)].kind = "init"
    /\ ctx.ext.outgoing[Len(ctx.ext.outgoing)].packet.gas = <<5>>
    /\ last.pre.ext.outgoing # <<>>

(* ---- batch pool: Context::update (PoolSpec) ----------------------------- *)

\* The elements of an ordered set.
Elements(s) == {s[i] : i \in DOMAIN s}

\* s is a BTreeSet: ascending, no element twice.
Ordered(s) == \A i \in 1..(Len(s) - 1) : s[i] < s[i + 1]

\* The Context after the updates us are applied to c one after the other.
RECURSIVE Replay(_, _)
Replay(c, us) == IF us = <<>> THEN c ELSE Replay(update(c, Head(us)), Tail(us))

\* The sequence us from its last element to its first.
Backwards(us) == [i \in DOMAIN us |-> us[Len(us) + 1 - i]]

\* C29 Context::update only grows the context: after any sequence of
\* updates, `programs` and `codes` are ordered sets whose elements are those
\* the context started with and those of every update applied, so nothing
\* was removed; applying the applied updates once more leaves the context as
\* it is, and applying them to the initial context in the opposite order
\* yields the same context.
C29_UpdateIsUnion ==
    /\ Ordered(context.programs) /\ Ordered(context.codes)
    /\ Elements(context.programs) =
          Elements(applied.initial.programs)
          \cup UNION {Elements(applied.updates[i].program_ids) : i \in DOMAIN applied.updates}
    /\ Elements(context.codes) =
          Elements(applied.initial.codes)
          \cup UNION {Elements(applied.updates[i].codes) : i \in DOMAIN applied.updates}
    /\ Replay(context, applied.updates) = context
    /\ Replay(applied.initial, Backwards(applied.updates)) = context

\* Two updates whose program ids overlap and arrive out of order were
\* applied to a context that held an id already.
C29_Witness ==
    /\ applied.initial.programs = <<MaxPrograms>>
    /\ Len(applied.updates) = 2
    /\ applied.updates[1].program_ids = <<2, 3>>
    /\ applied.updates[2].program_ids = <<1, 2>>
    /\ applied.updates[1].codes = <<1>>
    /\ Elements(context.programs) = {1, 2, 3, MaxPrograms}
    /\ context.codes = <<1>>

====
